---- MODULE Spec2Model ----
(***************************************************************************)
(* Verification model of the auth / session engine of store-serverless:   *)
(* single-admin credentials, per-username lockout, rotating refresh       *)
(* tokens, per-IP login rate limiting and retention cleanup.              *)
(*                                                                         *)
(* Time is a discrete clock `now`; durations are small integers of the    *)
(* same unit.  SQL tables are sets of rows (records); NULL is a nullable  *)
(* column holding no value.                                                *)
(***************************************************************************)
EXTENDS Integers, Sequences, FiniteSets, TLC

VARIABLES now, users, auth_login_attempts, auth_refresh_tokens,
          auth_login_ip_limits, nextSeq, consec, deadline, rotated,
          revoked, rot, wins, asked, ipCalls, ipAllowed, ipWindow, inst,
          lastUpsert, issued, authz, hitByIP, gate, rfa, serial, tx, logins,
          boot, env, mirror

vars == <<now, users, auth_login_attempts, auth_refresh_tokens,
          auth_login_ip_limits, nextSeq, consec, deadline, rotated,
          revoked, rot, wins, asked, ipCalls, ipAllowed, ipWindow, inst,
          lastUpsert, issued, authz, hitByIP, gate, rfa, serial, tx, logins,
          boot, env, mirror>>

(***************************************************************************)
(* Bounds of the exploration and the (scaled) configuration.               *)
(***************************************************************************)
MaxTime == 3
MaxTokens == 3
MaxSessions == 1
maxAttempts == 2
lockDuration == 2
refreshTTL == 2
maxHits == 2
window == 2
MaxIPCalls == 4
MaxUsers == 2
accessTTL == 1
TicksPerSecond == 2

NULL == -1
EmptyToken == 0

Usernames == {"admin", "ghost"}
Passwords == {"secret-pass-01", "secret-pass-02"}

Max(a, b) == IF a >= b THEN a ELSE b
Min(a, b) == IF a <= b THEN a ELSE b

(***************************************************************************)
(* Strings the clients and the environment can send, with the string      *)
(* functions the code applies to them.                                     *)
(***************************************************************************)
RawUsernames == {"admin", " Admin", "ghost", "x", ""}
RawPasswords == {"secret-pass-01", " secret-pass-01", "secret-pass-02", "short", ""}

\* the login requests, the environments (ADMIN_USERNAME, ADMIN_PASSWORD) and
\* the cleanup parameters explored
LoginRequests == {<<" Admin", " secret-pass-01">>, <<"admin", "secret-pass-02">>,
                  <<"ghost", "secret-pass-01">>, <<"x", "secret-pass-01">>,
                  <<"admin", "short">>}
OwnerLogins == {<<" Admin", "secret-pass-01">>}
Environments == {<<" Admin", " secret-pass-01">>, <<"", "">>, <<"admin", "">>,
                 <<" ", " ">>, <<" ", "secret-pass-02">>}
CleanupRuns == {<<0, 0, 0>>, <<1, 1, 1>>}

TrimSpace(s) ==
    CASE s = " " -> ""
      [] s = " Admin" -> "Admin"
      [] s = " admin" -> "admin"
      [] s = " secret-pass-01" -> "secret-pass-01"
      [] OTHER -> s

ToLower(s) ==
    CASE s = " Admin" -> " admin"
      [] s = "Admin" -> "admin"
      [] OTHER -> s

StrLen(s) ==
    CASE s = "" -> 0
      [] s \in {"x", " "} -> 1
      [] s = "short" -> 5
      [] s \in {"admin", "Admin", "ghost"} -> 5
      [] s \in {" Admin", " admin"} -> 6
      [] s \in {"secret-pass-01", "secret-pass-02"} -> 14
      [] s = " secret-pass-01" -> 15
      [] OTHER -> 0

\* usernameRegex ^[a-z0-9_.-]{3,32}$ on the strings above
usernameRegexMatch(s) == s \in {"admin", "ghost"}

\* bcrypt: a hash verifies exactly the password it was generated from
GenerateFromPassword(pw) == <<"bcrypt", pw>>
CompareHashAndPassword(hash, pw) == hash = <<"bcrypt", pw>>

\* sha256 + hex of a presented refresh token; a token is [raw, pad] where pad
\* says the string carries surrounding white space
Sha256Hex(tok) == <<"sha256", tok.raw, tok.pad>>
TrimToken(tok) == [raw |-> tok.raw, pad |-> FALSE]
RandomToken(n) == [raw |-> n, pad |-> FALSE]

(***************************************************************************)
(* Credential store                                                        *)
(***************************************************************************)
GetByUsername(tbl, username) == {u \in tbl : u.username = username}

\* SELECT id FROM users ORDER BY created_at ASC LIMIT 1: any of the rows
\* created first
EarliestUsers(tbl) == {u \in tbl : \A v \in tbl : u.created_at <= v.created_at}

\* users_username_unique, checked by the UPDATE before the other rows go
UsernameTaken(tbl, existingID, username) ==
    \E v \in tbl : v.id # existingID /\ v.username = username

DeleteOtherUsers_None(tbl, existingID) == tbl

\* DELETE FROM users WHERE id <> $1
DeleteOtherUsers(tbl, existingID) == {u \in tbl : u.id = existingID}

\* the outcomes of one call: the error it returns and the table it leaves
UpsertSingleUser(tbl, id, username, plainPassword, t) ==
    LET hash == GenerateFromPassword(plainPassword)
    IN  IF tbl = {}
        THEN {[err |-> "nil",
               tbl |-> DeleteOtherUsers(
                          {[id |-> id, username |-> username,
                            password_hash |-> hash, created_at |-> t,
                            updated_at |-> t]}, id)]}
        ELSE {IF UsernameTaken(tbl, e.id, username)
              THEN [err |-> "update admin user", tbl |-> tbl]
              ELSE [err |-> "nil",
                    tbl |-> DeleteOtherUsers(
                               {IF u.id = e.id
                                THEN [u EXCEPT !.username = username,
                                               !.password_hash = hash,
                                               !.updated_at = t]
                                ELSE u : u \in tbl}, e.id)]
              : e \in EarliestUsers(tbl)}

(***************************************************************************)
(* Login attempt tracker                                                   *)
(***************************************************************************)
GetLoginAttempt(tbl, username) ==
    LET rows == {a \in tbl : a.username = username}
    IN  IF rows = {}
        THEN [Username |-> username, FailedAttempts |-> 0, LockedUntil |-> NULL]
        ELSE LET a == CHOOSE r \in rows : TRUE
             IN  [Username |-> username, FailedAttempts |-> a.failed_attempts,
                  LockedUntil |-> a.locked_until]

\* lockedUntil.Valid && now.Before(lockedUntil.Time)
LockActive(lockedUntil, t) == lockedUntil # NULL /\ t < lockedUntil

NextAttemptRow_LockFromLastUpdate(username, failed, maxA, lockD, t) ==
    IF failed + 1 >= maxA
    THEN [username |-> username, failed_attempts |-> 0,
          locked_until |-> t + lockD + 1, updated_at |-> t]
    ELSE [username |-> username, failed_attempts |-> failed + 1,
          locked_until |-> NULL, updated_at |-> t]

NextAttemptRow_KeepsCount(username, failed, maxA, lockD, t) ==
    [username |-> username, failed_attempts |-> failed + 1,
     locked_until |-> IF failed + 1 >= maxA THEN t + lockD ELSE NULL,
     updated_at |-> t]

\* the counter and deadline the upsert writes for one more failure
NextAttemptRow(username, failed, maxA, lockD, t) ==
    IF failed + 1 >= maxA
    THEN [username |-> username, failed_attempts |-> 0,
          locked_until |-> t + lockD, updated_at |-> t]
    ELSE [username |-> username, failed_attempts |-> failed + 1,
          locked_until |-> NULL, updated_at |-> t]

RegisterFailedAttempt_CountsWhileLocked(tbl, username, maxA, lockD, t) ==
    LET cur == GetLoginAttempt(tbl, username)
        row == NextAttemptRow(username, cur.FailedAttempts, maxA, lockD, t)
    IN  [until |-> row.locked_until,
         tbl |-> {a \in tbl : a.username # username} \cup {row}]

RegisterFailedAttempt(tbl, username, maxA, lockD, t) ==
    LET cur == GetLoginAttempt(tbl, username)
    IN  IF LockActive(cur.LockedUntil, t)
        THEN [until |-> cur.LockedUntil, tbl |-> tbl]
        ELSE LET row == NextAttemptRow(username, cur.FailedAttempts, maxA, lockD, t)
             IN  [until |-> row.locked_until,
                  tbl |-> {a \in tbl : a.username # username} \cup {row}]

ResetLoginAttempt_KeepsRow(tbl, username) == tbl

\* DELETE FROM auth_login_attempts WHERE username = $1
ResetLoginAttempt(tbl, username) == {a \in tbl : a.username # username}

(***************************************************************************)
(* Service.Login and Handler.Login                                         *)
(***************************************************************************)
LoginLocked_Unchecked(attempt, t) == FALSE

LoginLocked_UntilInclusive(attempt, t) ==
    attempt.LockedUntil # NULL /\ t <= attempt.LockedUntil

\* attempt.LockedUntil != nil && now.Before(*attempt.LockedUntil)
LoginLocked(attempt, t) == attempt.LockedUntil # NULL /\ t < attempt.LockedUntil

LoginFailure(tbl, username, t, branch) ==
    LET reg == RegisterFailedAttempt(tbl, username, maxAttempts, lockDuration, t)
    IN  [result |-> IF reg.until # NULL THEN "ErrLoginLocked"
                    ELSE "ErrInvalidCredentials",
         until |-> reg.until, attempts |-> reg.tbl, branch |-> branch,
         userID |-> NULL, user |-> username]

LoginUserNotFound_NoFailureRegistered(tbl, username, t) ==
    [result |-> "ErrInvalidCredentials", until |-> NULL, attempts |-> tbl,
     branch |-> "notfound", userID |-> NULL, user |-> username]

\* sql.ErrNoRows from GetByUsername
LoginUserNotFound(tbl, username, t) == LoginFailure(tbl, username, t, "notfound")

\* bcrypt.CompareHashAndPassword failed
LoginPasswordMismatch(tbl, username, t) == LoginFailure(tbl, username, t, "mismatch")

ServiceLogin(usersTbl, tbl, username0, password0, t) ==
    LET username == TrimSpace(ToLower(username0))
        password == TrimSpace(password0)
        attempt == GetLoginAttempt(tbl, username)
        found == GetByUsername(usersTbl, username)
    IN  IF username = "" \/ password = ""
        THEN [result |-> "ErrInvalidCredentials", until |-> NULL, attempts |-> tbl,
              branch |-> "empty", userID |-> NULL, user |-> username]
        ELSE IF LoginLocked(attempt, t)
        THEN [result |-> "ErrLoginLocked", until |-> attempt.LockedUntil,
              attempts |-> tbl, branch |-> "locked", userID |-> NULL,
              user |-> username]
        ELSE IF found = {}
        THEN LoginUserNotFound(tbl, username, t)
        ELSE LET user == CHOOSE u \in found : TRUE
             IN  IF ~CompareHashAndPassword(user.password_hash, password)
                 THEN LoginPasswordMismatch(tbl, username, t)
                 ELSE [result |-> "tokens", until |-> NULL,
                       attempts |-> ResetLoginAttempt(tbl, username),
                       branch |-> "ok", userID |-> user.id, user |-> username]

\* the response Handler.Login writes for a result of Service.Login
LoginResponse(result, until, t) ==
    CASE result = "tokens" -> [status |-> 200, retryAfter |-> 0]
      [] result = "ErrInvalidCredentials" -> [status |-> 401, retryAfter |-> 0]
      [] result = "ErrLoginLocked" ->
            [status |-> 429, retryAfter |-> Max(1, until - t)]
      [] OTHER -> [status |-> 500, retryAfter |-> 0]

HandlerLogin(usersTbl, tbl, rawUsername, rawPassword, t) ==
    LET username == TrimSpace(rawUsername)
        password == TrimSpace(rawPassword)
    IN  IF ~usernameRegexMatch(ToLower(username))
           \/ StrLen(password) < 12 \/ StrLen(password) > 200
        THEN [result |-> "400", until |-> NULL, attempts |-> tbl,
              branch |-> "400", userID |-> NULL, user |-> ToLower(username)]
        ELSE ServiceLogin(usersTbl, tbl, username, password, t)

(***************************************************************************)
(* Refresh token ledger                                                    *)
(***************************************************************************)
CreateRefreshToken(tbl, id, userID, rawToken, expiresAt, t) ==
    tbl \cup {[id |-> id, user_id |-> userID, token_hash |-> Sha256Hex(rawToken),
               expires_at |-> expiresAt, revoked_at |-> NULL,
               replaced_by |-> NULL, created_at |-> t]}

RowsByHash(tbl, rawToken) == {r \in tbl : r.token_hash = Sha256Hex(rawToken)}

RotationRejected_IgnoresRevocation(row, t) == t > row.expires_at

RotationRejected_IgnoresExpiry(row, t) == row.revoked_at # NULL

\* revokedAt.Valid || now.After(expiresAt)
RotationRejected(row, t) == row.revoked_at # NULL \/ t > row.expires_at

MarkReplaced_PointerOnly(tbl, oldID, t, newID) ==
    {IF r.id = oldID THEN [r EXCEPT !.replaced_by = newID] ELSE r : r \in tbl}

\* UPDATE ... SET revoked_at = $2, replaced_by = $3 WHERE id = $1
MarkReplaced(tbl, oldID, t, newID) ==
    {IF r.id = oldID THEN [r EXCEPT !.revoked_at = t, !.replaced_by = newID]
     ELSE r : r \in tbl}

RotateRefreshToken_OwnerOfFirstRow(tbl, rawOldToken, rawNewToken, newID, newExpiresAt, t) ==
    LET rows == RowsByHash(tbl, rawOldToken)
        first == CHOOSE r \in tbl : \A x \in tbl : r.id <= x.id
    IN  IF rows = {}
        THEN [err |-> "ErrInvalidRefreshToken", userID |-> NULL, tbl |-> tbl]
        ELSE LET old == CHOOSE r \in rows : TRUE
             IN  IF RotationRejected(old, t)
                 THEN [err |-> "ErrInvalidRefreshToken", userID |-> NULL, tbl |-> tbl]
                 ELSE [err |-> "nil", userID |-> first.user_id,
                       tbl |-> MarkReplaced(
                                  CreateRefreshToken(tbl, newID, first.user_id,
                                                     rawNewToken, newExpiresAt, t),
                                  old.id, t, newID)]

RotateRefreshToken_RevokesOnReplay(tbl, rawOldToken, rawNewToken, newID, newExpiresAt, t) ==
    LET rows == RowsByHash(tbl, rawOldToken)
    IN  IF rows = {}
        THEN [err |-> "ErrInvalidRefreshToken", userID |-> NULL, tbl |-> tbl]
        ELSE LET old == CHOOSE r \in rows : TRUE
             IN  IF RotationRejected(old, t)
                 THEN [err |-> "ErrInvalidRefreshToken", userID |-> NULL,
                       tbl |-> IF old.replaced_by = NULL THEN tbl
                               ELSE {IF r.user_id = old.user_id /\ r.revoked_at = NULL
                                     THEN [r EXCEPT !.revoked_at = t] ELSE r :
                                        r \in tbl}]
                 ELSE [err |-> "nil", userID |-> old.user_id,
                       tbl |-> MarkReplaced(
                                  CreateRefreshToken(tbl, newID, old.user_id,
                                                     rawNewToken, newExpiresAt, t),
                                  old.id, t, newID)]

RotateRefreshToken(tbl, rawOldToken, rawNewToken, newID, newExpiresAt, t) ==
    LET rows == RowsByHash(tbl, rawOldToken)
    IN  IF rows = {}
        THEN [err |-> "ErrInvalidRefreshToken", userID |-> NULL, tbl |-> tbl]
        ELSE LET old == CHOOSE r \in rows : TRUE
             IN  IF RotationRejected(old, t)
                 THEN [err |-> "ErrInvalidRefreshToken", userID |-> NULL, tbl |-> tbl]
                 ELSE [err |-> "nil", userID |-> old.user_id,
                       tbl |-> MarkReplaced(
                                  CreateRefreshToken(tbl, newID, old.user_id,
                                                     rawNewToken, newExpiresAt, t),
                                  old.id, t, newID)]

RevokeRefreshToken_WithSuccessor(tbl, rawToken, t) ==
    LET hit == {r \in tbl : r.token_hash = Sha256Hex(rawToken)}
        succ == {r \in tbl : \E h \in hit : h.replaced_by = r.id}
    IN  {IF r \in hit \cup succ /\ r.revoked_at = NULL
         THEN [r EXCEPT !.revoked_at = t] ELSE r : r \in tbl}

RevokeRefreshToken_Overwrites(tbl, rawToken, t) ==
    {IF r.token_hash = Sha256Hex(rawToken)
     THEN [r EXCEPT !.revoked_at = t] ELSE r : r \in tbl}

RevokeRefreshToken_MatchesNoRow(tbl, rawToken, t) == tbl

\* UPDATE ... SET revoked_at = COALESCE(revoked_at, $2) WHERE token_hash = $1
RevokeRefreshToken(tbl, rawToken, t) ==
    {IF r.token_hash = Sha256Hex(rawToken) /\ r.revoked_at = NULL
     THEN [r EXCEPT !.revoked_at = t] ELSE r : r \in tbl}

ServiceRefresh_FixedExpiry(tbl, refreshToken0, seq, t) ==
    LET refreshToken == TrimToken(refreshToken0)
    IN  IF refreshToken.raw = EmptyToken
        THEN [err |-> "ErrInvalidRefreshToken", userID |-> NULL, tbl |-> tbl]
        ELSE RotateRefreshToken(tbl, refreshToken, RandomToken(seq), seq,
                                refreshTTL, t)

ServiceRefresh_EmptyHasOwnError(tbl, refreshToken0, seq, t) ==
    LET refreshToken == TrimToken(refreshToken0)
    IN  IF refreshToken.raw = EmptyToken
        THEN [err |-> "ErrEmptyRefreshToken", userID |-> NULL, tbl |-> tbl]
        ELSE RotateRefreshToken(tbl, refreshToken, RandomToken(seq), seq,
                                t + refreshTTL, t)

ServiceRefresh(tbl, refreshToken0, seq, t) ==
    LET refreshToken == TrimToken(refreshToken0)
    IN  IF refreshToken.raw = EmptyToken
        THEN [err |-> "ErrInvalidRefreshToken", userID |-> NULL, tbl |-> tbl]
        ELSE RotateRefreshToken(tbl, refreshToken, RandomToken(seq), seq,
                                t + refreshTTL, t)

\* Service.Logout: trims the token, refuses an empty one, revokes the rest
ServiceLogout(tbl, refreshToken0, t) ==
    LET refreshToken == TrimToken(refreshToken0)
    IN  IF refreshToken.raw = EmptyToken
        THEN [err |-> "ErrInvalidRefreshToken", tbl |-> tbl]
        ELSE [err |-> "nil", tbl |-> RevokeRefreshToken(tbl, refreshToken, t)]

HandlerLogout(tbl, rawToken, t) ==
    IF TrimToken(rawToken).raw = EmptyToken
    THEN [err |-> "400", tbl |-> tbl]
    ELSE ServiceLogout(tbl, TrimToken(rawToken), t)

(***************************************************************************)
(* RotateRefreshToken statement by statement, as one of several            *)
(* transactions on the table.  A transaction holds the row its SELECT ...  *)
(* FOR UPDATE returned from that statement until it commits or rolls back. *)
(***************************************************************************)
Holding == {"locked", "checked", "inserted", "updated"}
InFlight == {"begun"} \cup Holding

RowLockFree_NoRowLock(held, rows) == TRUE

\* FOR UPDATE: the statement waits while another transaction holds the row
RowLockFree(held, rows) == {r.id : r \in rows} \cap held = {}

RotationWrites_InsertOnly(tbl, old, rawNewToken, newID, newExpiresAt, t) ==
    CreateRefreshToken(tbl, newID, old.user_id, rawNewToken, newExpiresAt, t)

\* the INSERT and the UPDATE of a transaction, made visible by its Commit
RotationWrites(tbl, old, rawNewToken, newID, newExpiresAt, t) ==
    MarkReplaced(CreateRefreshToken(tbl, newID, old.user_id, rawNewToken,
                                    newExpiresAt, t),
                 old.id, t, newID)

(***************************************************************************)
(* Login rate limit by client IP, persisted                                *)
(***************************************************************************)
ConflictRow_FromSnapshot(tbl, snapshot, ip) == {r \in snapshot : r.ip = ip}

\* ON CONFLICT (ip) DO UPDATE works on the row as it is in the table when the
\* statement reaches it, whatever the statement saw when it started
ConflictRow(tbl, snapshot, ip) == {r \in tbl : r.ip = ip}

WindowElapsed_Strict(window_started_at, threshold) == window_started_at < threshold

\* WHEN auth_login_ip_limits.window_started_at <= $3
WindowElapsed(window_started_at, threshold) == window_started_at <= threshold

\* the row INSERT ... ON CONFLICT (ip) DO UPDATE ... RETURNING leaves
UpsertIPLimit(conflict, ip, t, threshold) ==
    IF conflict = {}
    THEN [ip |-> ip, window_started_at |-> t, hits |-> 1, updated_at |-> t]
    ELSE LET r == CHOOSE x \in conflict : TRUE
         IN  [ip |-> ip,
              window_started_at |->
                  IF WindowElapsed(r.window_started_at, threshold) THEN t
                  ELSE r.window_started_at,
              hits |-> IF WindowElapsed(r.window_started_at, threshold) THEN 1
                       ELSE r.hits + 1,
              updated_at |-> t]

AllowLoginIP(tbl, snapshot, ip, maxH, win, t) ==
    LET threshold == t - win
        row == UpsertIPLimit(ConflictRow(tbl, snapshot, ip), ip, t, threshold)
        retryAfter == row.window_started_at + win - t
    IN  [allowed |-> row.hits <= maxH,
         retryAfter |-> IF row.hits <= maxH THEN 0
                        ELSE IF retryAfter < 1 THEN 1 ELSE retryAfter,
         row |-> row,
         tbl |-> {r \in tbl : r.ip # ip} \cup {row}]

(***************************************************************************)
(* Access tokens.  Where tokens are issued and verified the clock counts   *)
(* TicksPerSecond ticks to the second; accessTTL is in seconds.            *)
(***************************************************************************)
\* Time.Unix(): the whole seconds of an instant
Unix(t) == t \div TicksPerSecond
\* the instant of a NumericDate
NumericDate(sec) == sec * TicksPerSecond

jwtSecret == "secret-A"
Keys == {"secret-A", "secret-B"}

\* HMAC over header and claims; an unsigned token carries none
HmacSign(alg, claims, key) ==
    IF alg = "none" THEN <<>> ELSE <<"mac", alg, claims, key>>

Jwt(alg, claims, sig) == [kind |-> "jwt", alg |-> alg, claims |-> claims, sig |-> sig]

StringClaim(v) == [type |-> "string", val |-> v]
NoClaim == [type |-> "absent", val |-> ""]
DateClaim(sec) == [present |-> TRUE, val |-> sec]
NoDate == [present |-> FALSE, val |-> 0]

\* token.SignedString(key)
SignedString(alg, claims, key) == Jwt(alg, claims, HmacSign(alg, claims, key))

issueAccessToken(userID, t) ==
    LET claims == [sub |-> userID, iat |-> Unix(t),
                   exp |-> DateClaim(Unix(t + accessTTL * TicksPerSecond)),
                   typ |-> StringClaim("access")]
    IN  [token |-> SignedString("HS256", claims, jwtSecret),
         expiresIn |-> accessTTL]

ValidMethods_AnyHmac == {"HS256", "HS384"}

\* jwt.WithValidMethods([]string{jwt.SigningMethodHS256.Alg()})
ValidMethods == {"HS256"}

\* the validator of the claims: exp, when present, must lie after now
NotExpired(claims, t) == claims.exp.present => t < NumericDate(claims.exp.val)

\* jwt.ParseWithClaims(...): err == nil && token.Valid
ParseWithClaims(tok, secret, t) ==
    /\ tok.kind = "jwt"
    /\ tok.alg \in ValidMethods
    /\ tok.sig = HmacSign(tok.alg, tok.claims, secret)
    /\ NotExpired(tok.claims, t)

\* tokenType, _ := claims["typ"].(string)
TokenType(claims) == IF claims.typ.type = "string" THEN claims.typ.val ELSE ""

EqualFoldBearer(scheme) == scheme \in {"Bearer", "bearer", "BEARER"}

\* the Authorization header: absent, or a scheme and what follows it
Middleware(header, secret, t) ==
    IF ~header.present THEN "401"
    ELSE IF ~header.parts \/ ~EqualFoldBearer(header.scheme) THEN "401"
    ELSE IF header.token.kind = "empty" THEN "401"
    ELSE IF ~ParseWithClaims(header.token, secret, t) THEN "401"
    ELSE IF TokenType(header.token.claims) # "access" THEN "401"
    ELSE "next"

(***************************************************************************)
(* Login rate limit by client IP, in memory.  hitByIP maps the IPs it      *)
(* tracks to the times of their allowed attempts, oldest first.            *)
(***************************************************************************)
maxMemory == 1

\* l.hitByIP[ip], nil for an IP the map does not hold
HitsOf(hits, ip) == IF ip \in DOMAIN hits THEN hits[ip] ELSE <<>>

\* if hit.After(threshold)
RecentHits(seq, threshold) ==
    LET Recent(h) == h > threshold IN SelectSeq(seq, Recent)

\* l.hitByIP[ip] = filtered
PutHits(hits, ip, seq) ==
    [k \in DOMAIN hits \cup {ip} |-> IF k = ip THEN seq ELSE hits[k]]

\* once the map holds more than maxMemory IPs: delete the IPs with no hit,
\* or with their last hit before the threshold
Evict(hits, threshold) ==
    IF Cardinality(DOMAIN hits) > maxMemory
    THEN [k \in {x \in DOMAIN hits :
                    ~(Len(hits[x]) = 0 \/ hits[x][Len(hits[x])] < threshold)}
             |-> hits[k]]
    ELSE hits

allow_RecordsDenied(hits, ip, maxH, win, t) ==
    LET threshold == t - win
        filtered == RecentHits(HitsOf(hits, ip), threshold)
        retryAfter == filtered[1] + win - t
    IN  IF Len(filtered) >= maxH
        THEN [allowed |-> FALSE,
              retryAfter |-> IF retryAfter < 1 THEN 1 ELSE retryAfter,
              hits |-> PutHits(hits, ip, Append(Tail(filtered), t))]
        ELSE [allowed |-> TRUE, retryAfter |-> 0,
              hits |-> Evict(PutHits(hits, ip, Append(filtered, t)), threshold)]

allow(hits, ip, maxH, win, t) ==
    LET threshold == t - win
        filtered == RecentHits(HitsOf(hits, ip), threshold)
        retryAfter == filtered[1] + win - t
    IN  IF Len(filtered) >= maxH
        THEN [allowed |-> FALSE,
              retryAfter |-> IF retryAfter < 1 THEN 1 ELSE retryAfter,
              hits |-> PutHits(hits, ip, filtered)]
        ELSE [allowed |-> TRUE, retryAfter |-> 0,
              hits |-> Evict(PutHits(hits, ip, Append(filtered, t)), threshold)]

LimiterMiddleware_FallsThrough(hits, ip, t) ==
    LET res == allow(hits, ip, maxHits, window, t)
    IN  [allowed |-> res.allowed, hits |-> res.hits, next |-> TRUE,
         status |-> IF res.allowed THEN 0 ELSE 429, retryAfter |-> res.retryAfter]

\* LoginRateLimiter.Middleware: 429 and return when the limiter denies,
\* next.ServeHTTP otherwise
LimiterMiddleware(hits, ip, t) ==
    LET res == allow(hits, ip, maxHits, window, t)
    IN  [allowed |-> res.allowed, hits |-> res.hits, next |-> res.allowed,
         status |-> IF res.allowed THEN 0 ELSE 429, retryAfter |-> res.retryAfter]

(***************************************************************************)
(* Retention cleanup                                                       *)
(***************************************************************************)
DefaultBatchSize == 500
DefaultRefreshRetention == 3
DefaultLoginAttemptRetention == 4

StaleRefreshTokens_ByCreation(tbl, cutoff, t) ==
    {r \in tbl : r.created_at < t \/ (r.revoked_at # NULL /\ r.revoked_at < cutoff)}

\* WHERE expires_at < NOW() OR (revoked_at IS NOT NULL AND revoked_at < $1)
StaleRefreshTokens(tbl, cutoff, t) ==
    {r \in tbl : r.expires_at < t \/ (r.revoked_at # NULL /\ r.revoked_at < cutoff)}

StaleLoginAttempts(tbl, cutoff, t) ==
    {a \in tbl : a.updated_at < cutoff /\ (a.locked_until = NULL \/ a.locked_until < t)}

StaleIPLimits(tbl, cutoff) == {l \in tbl : l.updated_at < cutoff}

\* the batches ORDER BY key ASC LIMIT n can select out of stale
Batches(stale, key, n) ==
    {b \in SUBSET stale :
        /\ Cardinality(b) = Min(n, Cardinality(stale))
        /\ \A x \in b : \A y \in stale \ b : x[key] <= y[key]}

TokenBatches_NewestFirst(stale, n) ==
    {b \in SUBSET stale :
        /\ Cardinality(b) = Min(n, Cardinality(stale))
        /\ \A x \in b : \A y \in stale \ b : x.id > y.id}

\* ORDER BY created_at ASC LIMIT n on auth_refresh_tokens.  created_at is
\* the start of the inserting transaction, to the microsecond, and the
\* tokens are inserted by requests that come one after the other, so the
\* rows of one tick of the model's clock are in the order of insertion,
\* which their ids record.
TokenBatches(stale, n) ==
    {b \in SUBSET stale :
        /\ Cardinality(b) = Min(n, Cardinality(stale))
        /\ \A x \in b : \A y \in stale \ b :
              \/ x.created_at < y.created_at
              \/ x.created_at = y.created_at /\ x.id < y.id}

CleanupStaleAuthData(refreshRetention0, loginAttemptRetention0, batchSize0, t) ==
    LET batchSize == IF batchSize0 <= 0 THEN DefaultBatchSize ELSE batchSize0
        refreshRetention == IF refreshRetention0 <= 0 THEN DefaultRefreshRetention
                            ELSE refreshRetention0
        loginAttemptRetention == IF loginAttemptRetention0 <= 0
                                 THEN DefaultLoginAttemptRetention
                                 ELSE loginAttemptRetention0
        refreshCutoff == t - refreshRetention
        loginCutoff == t - loginAttemptRetention
    IN  [tokens |-> TokenBatches(StaleRefreshTokens(auth_refresh_tokens,
                                                    refreshCutoff, t),
                                 batchSize),
         attempts |-> Batches(StaleLoginAttempts(auth_login_attempts, loginCutoff, t),
                              "updated_at", batchSize),
         limits |-> Batches(StaleIPLimits(auth_login_ip_limits, loginCutoff),
                            "updated_at", batchSize)]

(***************************************************************************)
(* Bootstrap                                                               *)
(***************************************************************************)
BootstrapFromEnv_NoPairCheck(tbl, adminUsername0, adminPassword0, id, t) ==
    LET adminUsername == TrimSpace(ToLower(adminUsername0))
        adminPassword == TrimSpace(adminPassword0)
    IN  IF adminUsername = "" /\ adminPassword = ""
        THEN {[err |-> "nil", tbl |-> tbl]}
        ELSE UpsertSingleUser(tbl, id, adminUsername, adminPassword, t)

BootstrapFromEnv(tbl, adminUsername0, adminPassword0, id, t) ==
    LET adminUsername == TrimSpace(ToLower(adminUsername0))
        adminPassword == TrimSpace(adminPassword0)
    IN  IF adminUsername = "" /\ adminPassword = ""
        THEN {[err |-> "nil", tbl |-> tbl]}
        ELSE IF adminUsername = "" \/ adminPassword = ""
        THEN {[err |-> "config", tbl |-> tbl]}
        ELSE UpsertSingleUser(tbl, id, adminUsername, adminPassword, t)

(***************************************************************************)
(* What the requests are checked against: the lockout as the text          *)
(* describes it (consec = consecutive failed logins of a username, with no *)
(* successful login, no lock and no cleanup of its counter between them;   *)
(* deadline = end of its last lock), and the tokens whose rotation or      *)
(* logout has completed.                                                   *)
(***************************************************************************)
CredentialsCorrect(username, password) ==
    \E u \in users : /\ u.username = username
                      /\ CompareHashAndPassword(u.password_hash, password)

LockPhase(username) ==
    IF deadline[username] = NULL THEN "none"
    ELSE IF now < deadline[username] THEN "active" ELSE "expired"

\* no UpsertSingleUser call has returned yet; the table started with n rows
NoUpsert(n) == [start |-> n, calls |-> 0, username |-> "", password_hash |-> <<>>]

\* ADMIN_USERNAME and ADMIN_PASSWORD have not been read yet
NoEnv == [username |-> "", password |-> "", stored |-> FALSE, login |-> "none"]

\* the limiter that never evicts has seen no call yet
NoMirror == [hits |-> <<>>, same |-> TRUE]

\* no login request has reached the rate limit yet
NoGate == [ip |-> "", allowed |-> FALSE, status |-> 0,
           retryAfter |-> 0, served |-> FALSE, touched |-> FALSE]

\* no request has reached a protected route yet
NoClaims == [sub |-> 0, iat |-> 0, exp |-> NoDate, typ |-> NoClaim]
NoToken == [kind |-> "empty", alg |-> "", claims |-> NoClaims, sig |-> <<>>]
NoHeader == [present |-> FALSE, parts |-> FALSE, scheme |-> "", token |-> NoToken]
NoRequest == [header |-> NoHeader, at |-> 0, result |-> ""]

\* the requests served concurrently, each on its own connection
Procs == {"p1", "p2"}
IPs == {"10.0.0.1", "10.0.0.2"}
IdleCall == [pc |-> "idle", ip |-> "", now |-> 0, snapshot |-> {},
             allowed |-> FALSE, overlap |-> FALSE]
IdleProc == [pc |-> "idle", old |-> RandomToken(EmptyToken), now |-> 0,
             newID |-> 0, newExp |-> 0, rows |-> {}, err |-> "",
             overlap |-> FALSE]

IdleFailure == [pc |-> "idle", username |-> "", now |-> 0, failed |-> 0,
                lockedUntil |-> NULL, held |-> FALSE]
NoFailures == [tbl |-> {}, calls |-> 0, raced |-> FALSE]

IdleLogin == [pc |-> "idle", username |-> "", password |-> "", now |-> 0,
              userID |-> NULL]
NoLogins == [proc |-> [p \in Procs |-> IdleLogin], calls |-> 0, locks |-> {},
             early |-> {}]

IdleBoot == [pc |-> "idle", username |-> "", password |-> "", id |-> 0,
             existingID |-> 0, now |-> 0, ins |-> {}, upd |-> {}, del |-> {},
             err |-> "", overlap |-> FALSE]

NoWork == [users |-> {}, attempts |-> {}, tokens |-> {}]
IdleTx == [op |-> "none", pc |-> "idle", err |-> "", username |-> "",
           password |-> "", old |-> RandomToken(EmptyToken), now |-> 0,
           id |-> 0, sel |-> {}, work |-> NoWork, before |-> NoWork,
           wrote |-> FALSE, intact |-> TRUE, calls |-> 0]

Init ==
    /\ now = 0
    /\ users = {}
    /\ auth_login_attempts = {}
    /\ auth_refresh_tokens = {}
    /\ auth_login_ip_limits = {}
    /\ nextSeq = 1
    /\ consec = [u \in Usernames |-> 0]
    /\ deadline = [u \in Usernames |-> NULL]
    /\ rotated = {}
    /\ revoked = {}
    /\ rot = [p \in Procs |-> IdleProc]
    /\ wins = [t \in 1 .. MaxTokens |-> 0]
    /\ asked = {}
    /\ ipCalls = [ip \in IPs |-> [w \in 0 .. MaxTime |-> 0]]
    /\ ipAllowed = [ip \in IPs |-> [w \in 0 .. MaxTime |-> 0]]
    /\ ipWindow = [ip \in IPs |-> [start |-> NULL, n |-> 0]]
    /\ inst = [p \in Procs |-> IdleCall]
    /\ lastUpsert = NoUpsert(Cardinality(users))
    /\ issued = {}
    /\ authz = NoRequest
    /\ hitByIP = <<>>
    /\ gate = NoGate
    /\ rfa = [p \in Procs |-> IdleFailure]
    /\ serial = NoFailures
    /\ tx = IdleTx
    /\ logins = NoLogins
    /\ boot = [p \in Procs |-> IdleBoot]
    /\ env = NoEnv
    /\ mirror = NoMirror

Tick ==
    /\ now < MaxTime
    /\ now' = now + 1
    /\ UNCHANGED <<users, auth_login_attempts, auth_refresh_tokens,
                   auth_login_ip_limits, nextSeq, consec, deadline, rotated,
                   revoked, rot, wins, asked, ipCalls, ipAllowed, ipWindow, inst,
                   lastUpsert, issued, authz, hitByIP, gate, rfa, serial, tx,
                   logins, boot, env, mirror>>

\* lastUpsert after a call of UpsertSingleUser with these arguments returned o
Upserted(o, username, plainPassword) ==
    IF o.err # "nil" THEN lastUpsert
    ELSE [lastUpsert EXCEPT !.calls = Min(@ + 1, 2), !.username = username,
                            !.password_hash = GenerateFromPassword(plainPassword)]

Bootstrap(rawUsername, rawPassword) ==
    LET adminUsername == TrimSpace(ToLower(rawUsername))
        adminPassword == TrimSpace(rawPassword)
    IN  \E out \in BootstrapFromEnv(users, rawUsername, rawPassword,
                                     100 + nextSeq, now) :
          /\ users' = out.tbl
          /\ lastUpsert' = IF adminUsername = "" \/ adminPassword = ""
                           THEN lastUpsert
                           ELSE Upserted(out, adminUsername, adminPassword)
          /\ UNCHANGED <<now, auth_login_attempts, auth_refresh_tokens,
                         auth_login_ip_limits, nextSeq, consec, deadline,
                         rotated, revoked, rot, wins, asked, ipCalls, ipAllowed,
                         ipWindow, inst, issued, authz, hitByIP, gate, rfa,
                         serial, tx, logins, boot, env, mirror>>

\* Handler.Login, once a request has reached it
LoginServed(rawUsername, rawPassword, cap) ==
    LET out == HandlerLogin(users, auth_login_attempts, rawUsername, rawPassword, now)
        u == out.user
        served == out.branch # "400"
        active == served /\ LockPhase(u) = "active"
        correct == served /\ CredentialsCorrect(u, TrimSpace(rawPassword))
    IN  /\ out.result = "tokens" => nextSeq <= cap
        /\ auth_login_attempts' = out.attempts
        /\ auth_refresh_tokens' =
              IF out.result = "tokens"
              THEN CreateRefreshToken(auth_refresh_tokens, nextSeq, out.userID,
                                      RandomToken(nextSeq), now + refreshTTL, now)
              ELSE auth_refresh_tokens
        /\ nextSeq' = IF out.result = "tokens" THEN nextSeq + 1 ELSE nextSeq
        /\ consec' = IF ~served \/ active THEN consec
                     ELSE IF correct \/ consec[u] + 1 >= maxAttempts
                     THEN [consec EXCEPT ![u] = 0]
                     ELSE [consec EXCEPT ![u] = consec[u] + 1]
        /\ deadline' = IF ~served \/ active THEN deadline
                       ELSE IF correct THEN [deadline EXCEPT ![u] = NULL]
                       ELSE IF consec[u] + 1 >= maxAttempts
                       THEN [deadline EXCEPT ![u] = now + lockDuration]
                       ELSE deadline
        /\ UNCHANGED <<now, users, auth_login_ip_limits, rotated, revoked, rot,
                       wins, asked, ipCalls, ipAllowed, ipWindow, inst,
                       lastUpsert, issued, authz, rfa, serial, tx, logins,
                       boot, env, mirror>>

Login(rawUsername, rawPassword, cap) ==
    /\ LoginServed(rawUsername, rawPassword, cap)
    /\ UNCHANGED <<hitByIP, gate>>

\* the refresh tokens a client can present: the empty string, a token that
\* was issued, or a string that never was; the empty string and the first
\* token also with white space around them
Presentable ==
    [raw : (0 .. nextSeq - 1) \cup {MaxTokens + 1}, pad : {FALSE}]
        \cup [raw : 0 .. Min(1, nextSeq - 1), pad : {TRUE}]

Refresh(tok) ==
    LET out == ServiceRefresh(auth_refresh_tokens, tok, nextSeq, now)
    IN  /\ out.err = "nil" => nextSeq <= MaxTokens
        /\ auth_refresh_tokens' = out.tbl
        /\ nextSeq' = IF out.err = "nil" THEN nextSeq + 1 ELSE nextSeq
        /\ rotated' = IF out.err = "nil" THEN rotated \cup {tok.raw} ELSE rotated
        /\ UNCHANGED <<now, users, auth_login_attempts, auth_login_ip_limits,
                       consec, deadline, revoked, rot, wins, asked, ipCalls, ipAllowed, ipWindow, inst,
                       lastUpsert, issued, authz, hitByIP, gate, rfa, serial,
                       tx, logins, boot, env, mirror>>

Logout(tok) ==
    LET out == HandlerLogout(auth_refresh_tokens, tok, now)
    IN  /\ auth_refresh_tokens' = out.tbl
        /\ revoked' = IF out.err = "nil" THEN revoked \cup {tok.raw} ELSE revoked
        /\ UNCHANGED <<now, users, auth_login_attempts, auth_login_ip_limits,
                       nextSeq, consec, deadline, rotated, rot, wins, asked,
                       ipCalls, ipAllowed, ipWindow, inst, lastUpsert,
                       issued, authz, hitByIP, gate, rfa, serial, tx, logins,
                       boot, env, mirror>>

Cleanup(refreshRetention, loginAttemptRetention, batchSize) ==
    LET del == CleanupStaleAuthData(refreshRetention, loginAttemptRetention,
                                    batchSize, now)
    IN  \E dt \in del.tokens, da \in del.attempts, dl \in del.limits :
          /\ auth_refresh_tokens' = auth_refresh_tokens \ dt
          /\ auth_login_attempts' = auth_login_attempts \ da
          /\ auth_login_ip_limits' = auth_login_ip_limits \ dl
          /\ consec' = [u \in Usernames |->
                          IF \E a \in da : a.username = u THEN 0 ELSE consec[u]]
          /\ UNCHANGED <<now, users, nextSeq, deadline, rotated, revoked, rot,
                         wins, asked, ipCalls, ipAllowed, ipWindow, inst,
                         lastUpsert, issued, authz, hitByIP, gate, rfa,
                         serial, tx, logins, boot, env, mirror>>

Next ==
    \/ Tick
    \/ \E c \in Environments : Bootstrap(c[1], c[2])
    \/ \E c \in LoginRequests : Login(c[1], c[2], MaxSessions)
    \/ \E k \in CleanupRuns : Cleanup(k[1], k[2], k[3])

Spec == Init /\ [][Next]_vars

\* The ledger after Build has bootstrapped the admin; its owner logs in,
\* refreshes and logs out while cleanup passes run.
InitLedger ==
    /\ now = 0
    /\ users \in {o.tbl : o \in BootstrapFromEnv({}, "admin", "secret-pass-01",
                                                  100, 0)}
    /\ auth_login_attempts = {}
    /\ auth_refresh_tokens = {}
    /\ auth_login_ip_limits = {}
    /\ nextSeq = 1
    /\ consec = [u \in Usernames |-> 0]
    /\ deadline = [u \in Usernames |-> NULL]
    /\ rotated = {}
    /\ revoked = {}
    /\ rot = [p \in Procs |-> IdleProc]
    /\ wins = [t \in 1 .. MaxTokens |-> 0]
    /\ asked = {}
    /\ ipCalls = [ip \in IPs |-> [w \in 0 .. MaxTime |-> 0]]
    /\ ipAllowed = [ip \in IPs |-> [w \in 0 .. MaxTime |-> 0]]
    /\ ipWindow = [ip \in IPs |-> [start |-> NULL, n |-> 0]]
    /\ inst = [p \in Procs |-> IdleCall]
    /\ lastUpsert = NoUpsert(Cardinality(users))
    /\ issued = {}
    /\ authz = NoRequest
    /\ hitByIP = <<>>
    /\ gate = NoGate
    /\ rfa = [p \in Procs |-> IdleFailure]
    /\ serial = NoFailures
    /\ tx = IdleTx
    /\ logins = NoLogins
    /\ boot = [p \in Procs |-> IdleBoot]
    /\ env = NoEnv
    /\ mirror = NoMirror

NextLedger ==
    \/ Tick
    \/ \E c \in OwnerLogins : Login(c[1], c[2], MaxTokens)
    \/ \E tok \in Presentable : Refresh(tok)
    \/ \E tok \in Presentable : Logout(tok)
    \/ \E k \in CleanupRuns : Cleanup(k[1], k[2], k[3])

SpecLedger == InitLedger /\ [][NextLedger]_vars

(***************************************************************************)
(* Concurrent refresh requests: each process runs Service.Refresh and the  *)
(* transaction of RotateRefreshToken one statement at a time.              *)
(***************************************************************************)
HeldBy(q) == IF rot[q].pc \in Holding THEN {r.id : r \in rot[q].rows} ELSE {}
HeldByOthers(p) == UNION {HeldBy(q) : q \in Procs \ {p}}

Returned(p, e) == [rot EXCEPT ![p].pc = "done", ![p].err = e]

\* Service.Refresh up to BeginTx: trim, refuse the empty token, draw the new
\* token and id, read the clock
RotBegin(p, tok) ==
    LET refreshToken == TrimToken(tok)
    IN  /\ rot[p].pc \in {"idle", "done"}
        /\ IF refreshToken.raw = EmptyToken
           THEN /\ rot' = [rot EXCEPT ![p] =
                             [IdleProc EXCEPT !.pc = "done", !.old = refreshToken,
                                              !.err = "ErrInvalidRefreshToken"]]
                /\ UNCHANGED <<nextSeq, asked>>
           ELSE /\ nextSeq <= MaxTokens
                /\ rot' = [rot EXCEPT ![p] =
                             [pc |-> "begun", old |-> refreshToken, now |-> now,
                              newID |-> nextSeq, newExp |-> now + refreshTTL,
                              rows |-> {}, err |-> "",
                              overlap |-> \E q \in Procs \ {p} :
                                             /\ rot[q].pc \in InFlight
                                             /\ rot[q].old = refreshToken]]
                /\ nextSeq' = nextSeq + 1
                /\ asked' = asked \cup {<<nextSeq, refreshToken.raw>>}
        /\ UNCHANGED <<now, users, auth_login_attempts, auth_refresh_tokens,
                       auth_login_ip_limits, consec, deadline, rotated, revoked,
                       wins, ipCalls, ipAllowed, ipWindow, inst, lastUpsert,
                       issued, authz, hitByIP, gate, rfa, serial, tx, logins,
                       boot, env, mirror>>

\* SELECT ... WHERE token_hash = $1 FOR UPDATE
RotSelect(p) ==
    LET rows == RowsByHash(auth_refresh_tokens, rot[p].old)
    IN  /\ rot[p].pc = "begun"
        /\ IF rows = {}
           THEN rot' = Returned(p, "ErrInvalidRefreshToken")
           ELSE /\ RowLockFree(HeldByOthers(p), rows)
                /\ rot' = [rot EXCEPT ![p].pc = "locked", ![p].rows = rows]
        /\ UNCHANGED <<now, users, auth_login_attempts, auth_refresh_tokens,
                       auth_login_ip_limits, nextSeq, consec, deadline, rotated,
                       revoked, wins, asked, ipCalls, ipAllowed, ipWindow, inst,
                       lastUpsert, issued, authz, hitByIP, gate, rfa, serial,
                       tx, logins, boot, env, mirror>>

\* if revokedAt.Valid || now.After(expiresAt): return, the deferred Rollback
\* releases the row
RotCheck(p) ==
    /\ rot[p].pc = "locked"
    /\ rot' = IF \E r \in rot[p].rows : RotationRejected(r, rot[p].now)
              THEN Returned(p, "ErrInvalidRefreshToken")
              ELSE [rot EXCEPT ![p].pc = "checked"]
    /\ UNCHANGED <<now, users, auth_login_attempts, auth_refresh_tokens,
                   auth_login_ip_limits, nextSeq, consec, deadline, rotated,
                   revoked, wins, asked, ipCalls, ipAllowed, ipWindow, inst,
                   lastUpsert, issued, authz, hitByIP, gate, rfa, serial, tx,
                   logins, boot, env, mirror>>

\* INSERT INTO auth_refresh_tokens, inside the transaction
RotInsert(p) ==
    /\ rot[p].pc = "checked"
    /\ rot' = [rot EXCEPT ![p].pc = "inserted"]
    /\ UNCHANGED <<now, users, auth_login_attempts, auth_refresh_tokens,
                   auth_login_ip_limits, nextSeq, consec, deadline, rotated,
                   revoked, wins, asked, ipCalls, ipAllowed, ipWindow, inst,
                   lastUpsert, issued, authz, hitByIP, gate, rfa, serial, tx,
                   logins, boot, env, mirror>>

\* UPDATE ... SET revoked_at, replaced_by, inside the transaction
RotUpdate(p) ==
    /\ rot[p].pc = "inserted"
    /\ rot' = [rot EXCEPT ![p].pc = "updated"]
    /\ UNCHANGED <<now, users, auth_login_attempts, auth_refresh_tokens,
                   auth_login_ip_limits, nextSeq, consec, deadline, rotated,
                   revoked, wins, asked, ipCalls, ipAllowed, ipWindow, inst,
                   lastUpsert, issued, authz, hitByIP, gate, rfa, serial, tx,
                   logins, boot, env, mirror>>

\* tx.Commit and return userID, nil
RotCommit(p) ==
    /\ rot[p].pc = "updated"
    /\ \E old \in rot[p].rows :
          auth_refresh_tokens' =
              RotationWrites(auth_refresh_tokens, old, RandomToken(rot[p].newID),
                             rot[p].newID, rot[p].newExp, rot[p].now)
    /\ rot' = Returned(p, "nil")
    /\ wins' = [wins EXCEPT ![rot[p].old.raw] = wins[rot[p].old.raw] + 1]
    /\ rotated' = rotated \cup {rot[p].old.raw}
    /\ UNCHANGED <<now, users, auth_login_attempts, auth_login_ip_limits,
                   nextSeq, consec, deadline, revoked, asked, ipCalls, ipAllowed, ipWindow, inst,
                   lastUpsert, issued, authz, hitByIP, gate, rfa, serial, tx,
                   logins, boot, env, mirror>>

NextRotate ==
    \/ Tick
    \/ \E c \in OwnerLogins : Login(c[1], c[2], MaxSessions)
    \/ \E p \in Procs, tok \in Presentable : RotBegin(p, tok)
    \/ \E p \in Procs : RotSelect(p)
    \/ \E p \in Procs : RotCheck(p)
    \/ \E p \in Procs : RotInsert(p)
    \/ \E p \in Procs : RotUpdate(p)
    \/ \E p \in Procs : RotCommit(p)

SpecRotate == InitLedger /\ [][NextRotate]_vars

(***************************************************************************)
(* The login rate limit, one request after another: every call is made     *)
(* with the time of the call.  ipWindow is the fixed window of the text:   *)
(* it starts with the first attempt, holds the attempts made less than     *)
(* window after its start, and the attempt after that starts the next one. *)
(***************************************************************************)
WindowOver(ip, t) ==
    ipWindow[ip].start = NULL \/ t >= ipWindow[ip].start + window

Counted(ip, out) ==
    /\ ipCalls' = [ipCalls EXCEPT ![ip][out.row.window_started_at] = @ + 1]
    /\ ipAllowed' = [ipAllowed EXCEPT ![ip][out.row.window_started_at] =
                        IF out.allowed THEN @ + 1 ELSE @]

AllowIP(ip) ==
    LET out == AllowLoginIP(auth_login_ip_limits, auth_login_ip_limits, ip,
                            maxHits, window, now)
    IN  /\ WindowOver(ip, now) \/ ipWindow[ip].n < MaxIPCalls
        /\ auth_login_ip_limits' = out.tbl
        /\ ipWindow' = [ipWindow EXCEPT ![ip] =
                          IF WindowOver(ip, now) THEN [start |-> now, n |-> 1]
                          ELSE [start |-> @.start, n |-> @.n + 1]]
        /\ Counted(ip, out)
        /\ UNCHANGED <<now, users, auth_login_attempts, auth_refresh_tokens,
                       nextSeq, consec, deadline, rotated, revoked, rot, wins,
                       asked, inst, lastUpsert, issued, authz, hitByIP, gate,
                       rfa, serial, tx, logins, boot, env, mirror>>

\* cleanup passes next to the limiter: the retention is configured in days
\* and the window in seconds, the runs keep rows at least one window
IPCleanupRuns == {<<0, window, 0>>, <<0, window + 1, 1>>}

NextIP ==
    \/ Tick
    \/ \E ip \in IPs : AllowIP(ip)
    \/ \E k \in IPCleanupRuns : Cleanup(k[1], k[2], k[3])

SpecIP == Init /\ [][NextIP]_vars

(***************************************************************************)
(* The login rate limit under concurrent requests: a call receives the     *)
(* time its caller read, and its statement runs when the store reaches it. *)
(***************************************************************************)
CallsOf(ip) ==
    LET Sum[w \in -1 .. MaxTime] == IF w < 0 THEN 0 ELSE ipCalls[ip][w] + Sum[w - 1]
    IN  Sum[MaxTime]

RECURSIVE CallsOfAll(_)
CallsOfAll(ips) ==
    IF ips = {} THEN 0
    ELSE LET ip == CHOOSE x \in ips : TRUE
         IN  CallsOf(ip) + CallsOfAll(ips \ {ip})

CallsMade == CallsOfAll(IPs) + Cardinality({p \in Procs : inst[p].pc = "called"})

\* AllowLoginIP is entered with the caller's now; the statement starts
IPBegin(p, ip) ==
    /\ inst[p].pc \in {"idle", "done"}
    /\ CallsMade < MaxIPCalls
    /\ inst' = [inst EXCEPT ![p] =
                  [pc |-> "called", ip |-> ip, now |-> now,
                   snapshot |-> {r \in auth_login_ip_limits : r.ip = ip},
                   allowed |-> FALSE,
                   overlap |-> \E q \in Procs \ {p} :
                                  inst[q].pc = "called" /\ inst[q].ip = ip]]
    /\ UNCHANGED <<now, users, auth_login_attempts, auth_refresh_tokens,
                   auth_login_ip_limits, nextSeq, consec, deadline, rotated,
                   revoked, rot, wins, asked, ipCalls, ipAllowed, ipWindow,
                   lastUpsert, issued, authz, hitByIP, gate, rfa, serial, tx,
                   logins, boot, env, mirror>>

\* the upsert takes effect and the call returns
IPExec(p) ==
    LET ip == inst[p].ip
        out == AllowLoginIP(auth_login_ip_limits, inst[p].snapshot, ip,
                            maxHits, window, inst[p].now)
    IN  /\ inst[p].pc = "called"
        /\ auth_login_ip_limits' = out.tbl
        /\ inst' = [inst EXCEPT ![p].pc = "done", ![p].allowed = out.allowed,
                                ![p].snapshot = {}]
        /\ Counted(ip, out)
        /\ UNCHANGED <<now, users, auth_login_attempts, auth_refresh_tokens,
                       nextSeq, consec, deadline, rotated, revoked, rot, wins,
                       asked, ipWindow, lastUpsert, issued, authz, hitByIP,
                       gate, rfa, serial, tx, logins, boot, env, mirror>>

NextIPConc ==
    \/ Tick
    \/ \E p \in Procs, ip \in IPs : IPBegin(p, ip)
    \/ \E p \in Procs : IPExec(p)

SpecIPConc == Init /\ [][NextIPConc]_vars

(***************************************************************************)
(* The credential store on its own: UpsertSingleUser called on any users   *)
(* table the schema allows (ids and usernames unique), also one with rows  *)
(* left by earlier versions.                                               *)
(***************************************************************************)
StoredUsernames == Usernames \cup {"root"}

StoredUsers ==
    [id : 1 .. MaxUsers, username : StoredUsernames,
     password_hash : {GenerateFromPassword("secret-pass-02")},
     created_at : {0, 1}, updated_at : {1}]

UserTables ==
    {tbl \in SUBSET StoredUsers :
        /\ Cardinality(tbl) <= MaxUsers
        /\ \A u \in tbl : \A v \in tbl :
              u # v => u.id # v.id /\ u.username # v.username}

InitUsers ==
    /\ now = 1
    /\ users \in UserTables
    /\ auth_login_attempts = {}
    /\ auth_refresh_tokens = {}
    /\ auth_login_ip_limits = {}
    /\ nextSeq = 1
    /\ consec = [u \in Usernames |-> 0]
    /\ deadline = [u \in Usernames |-> NULL]
    /\ rotated = {}
    /\ revoked = {}
    /\ rot = [p \in Procs |-> IdleProc]
    /\ wins = [t \in 1 .. MaxTokens |-> 0]
    /\ asked = {}
    /\ ipCalls = [ip \in IPs |-> [w \in 0 .. MaxTime |-> 0]]
    /\ ipAllowed = [ip \in IPs |-> [w \in 0 .. MaxTime |-> 0]]
    /\ ipWindow = [ip \in IPs |-> [start |-> NULL, n |-> 0]]
    /\ inst = [p \in Procs |-> IdleCall]
    /\ lastUpsert = NoUpsert(Cardinality(users))
    /\ issued = {}
    /\ authz = NoRequest
    /\ hitByIP = <<>>
    /\ gate = NoGate
    /\ rfa = [p \in Procs |-> IdleFailure]
    /\ serial = NoFailures
    /\ tx = IdleTx
    /\ logins = NoLogins
    /\ boot = [p \in Procs |-> IdleBoot]
    /\ env = NoEnv
    /\ mirror = NoMirror

Upsert(username, plainPassword) ==
    \E out \in UpsertSingleUser(users, 100 + nextSeq, username, plainPassword, now) :
        /\ users' = out.tbl
        /\ lastUpsert' = Upserted(out, username, plainPassword)
        /\ UNCHANGED <<now, auth_login_attempts, auth_refresh_tokens,
                       auth_login_ip_limits, nextSeq, consec, deadline, rotated,
                       revoked, rot, wins, asked, ipCalls, ipAllowed, ipWindow,
                       inst, issued, authz, hitByIP, gate, rfa, serial, tx,
                       logins, boot, env, mirror>>

NextUsers ==
    \/ Tick
    \/ \E u \in Usernames, pw \in Passwords : Upsert(u, pw)

SpecUsers == InitUsers /\ [][NextUsers]_vars

(***************************************************************************)
(* Access tokens: the service issues them, and clients present them, or    *)
(* anything else, to the protected routes.                                 *)
(***************************************************************************)
UserIDs == {101}

Bearer(tok) == [present |-> TRUE, parts |-> TRUE, scheme |-> "Bearer", token |-> tok]

IssueAccess(userID) ==
    /\ issued' = issued \cup {[at |-> now, userID |-> userID,
                               out |-> issueAccessToken(userID, now)]}
    /\ UNCHANGED <<now, users, auth_login_attempts, auth_refresh_tokens,
                   auth_login_ip_limits, nextSeq, consec, deadline, rotated,
                   revoked, rot, wins, asked, ipCalls, ipAllowed, ipWindow,
                   inst, lastUpsert, authz, hitByIP, gate, rfa, serial, tx,
                   logins, boot, env, mirror>>

\* claims a client can put together
TypClaims == {StringClaim("access"), StringClaim("refresh"), NoClaim,
              [type |-> "number", val |-> ""]}
ExpClaims == {NoDate, DateClaim(0), DateClaim(Unix(MaxTime) + accessTTL)}
ForgedClaims == [sub : UserIDs, iat : {0}, exp : ExpClaims, typ : TypClaims]
Algs == {"HS256", "HS384", "none"}

\* what can follow the scheme: nothing, an opaque refresh token, a token the
\* service issued, such a token re-signed with another algorithm, or a token
\* made with any algorithm, any key and any claims
BearerTokens ==
    {NoToken, [NoToken EXCEPT !.kind = "opaque"]}
        \cup {i.out.token : i \in issued}
        \cup {Jwt("HS256", i.out.token.claims,
                  HmacSign("HS384", i.out.token.claims, jwtSecret)) : i \in issued}
        \cup {SignedString(a, c, k) : a \in Algs, c \in ForgedClaims, k \in Keys}

\* the Authorization headers: none, one without a second part, a bearer
\* token, or an issued token under another spelling or another scheme
Headers ==
    {NoHeader, [NoHeader EXCEPT !.present = TRUE]}
        \cup {Bearer(tok) : tok \in BearerTokens}
        \cup {[Bearer(i.out.token) EXCEPT !.scheme = sch] :
                i \in issued, sch \in {"bearer", "Basic"}}

Authorize(header) ==
    /\ authz' = [header |-> header, at |-> now,
                 result |-> Middleware(header, jwtSecret, now)]
    /\ UNCHANGED <<now, users, auth_login_attempts, auth_refresh_tokens,
                   auth_login_ip_limits, nextSeq, consec, deadline, rotated,
                   revoked, rot, wins, asked, ipCalls, ipAllowed, ipWindow,
                   inst, lastUpsert, issued, hitByIP, gate, rfa, serial, tx,
                   logins, boot, env, mirror>>

NextAccess ==
    \/ Tick
    \/ \E u \in UserIDs : IssueAccess(u)
    \/ \E h \in Headers : Authorize(h)

SpecAccess == Init /\ [][NextAccess]_vars

(***************************************************************************)
(* POST /auth/login as routed: the rate limit in front of Handler.Login.   *)
(***************************************************************************)
GatedLogin(ip, rawUsername, rawPassword) ==
    LET g == LimiterMiddleware(hitByIP, ip, now)
        out == HandlerLogin(users, auth_login_attempts, rawUsername, rawPassword, now)
    IN  /\ hitByIP' = g.hits
        /\ IF g.next
           THEN LoginServed(rawUsername, rawPassword, MaxSessions)
           ELSE UNCHANGED <<now, users, auth_login_attempts, auth_refresh_tokens,
                            auth_login_ip_limits, nextSeq, consec, deadline,
                            rotated, revoked, rot, wins, asked, ipCalls,
                            ipAllowed, ipWindow, inst, lastUpsert, issued, authz,
                            rfa, serial, tx, logins, boot, env, mirror>>
        /\ gate' = [ip |-> ip, allowed |-> g.allowed,
                    status |-> IF g.allowed
                               THEN IF out.result = "400" THEN 400
                                    ELSE LoginResponse(out.result, out.until, now).status
                               ELSE g.status,
                    retryAfter |-> g.retryAfter,
                    served |-> g.next,
                    touched |-> <<users', auth_login_attempts', auth_refresh_tokens'>>
                                  # <<users, auth_login_attempts, auth_refresh_tokens>>]

\* the right credentials and a wrong password
GateRequests == {<<" Admin", " secret-pass-01">>, <<"admin", "secret-pass-02">>}

NextGate ==
    \/ Tick
    \/ \E ip \in IPs, c \in GateRequests : GatedLogin(ip, c[1], c[2])

SpecGate == InitLedger /\ [][NextGate]_vars

(***************************************************************************)
(* Concurrent failed logins (SpecAttempts): the transaction of             *)
(* RegisterFailedAttempt one statement at a time.  A transaction sees the  *)
(* rows committed before its statement; SELECT ... FOR UPDATE locks the    *)
(* row it finds and locks nothing when it finds none; the upsert waits for *)
(* a transaction that holds the row or has inserted the key, then writes   *)
(* the values it was given.  serial is the table the same calls produce    *)
(* one after the other, in the order of their commits.                     *)
(***************************************************************************)
MaxFailures == 3

Registering == {"begun", "read", "computed", "upserted"}

\* the usernames whose row, or whose key, a transaction other than p holds
KeysHeldByOthers(p) ==
    {rfa[q].username : q \in {x \in Procs \ {p} : rfa[x].held}}

\* BeginTx, with the username and the clock reading the service passes in
RegBegin(p, username) ==
    /\ rfa[p].pc \in {"idle", "done"}
    /\ serial.calls < MaxFailures
    /\ rfa' = [rfa EXCEPT ![p] = [IdleFailure EXCEPT !.pc = "begun",
                                     !.username = username, !.now = now]]
    /\ serial' = [serial EXCEPT !.calls = serial.calls + 1]
    /\ UNCHANGED <<now, users, auth_login_attempts, auth_refresh_tokens,
                   auth_login_ip_limits, nextSeq, consec, deadline, rotated,
                   revoked, rot, wins, asked, ipCalls, ipAllowed, ipWindow,
                   inst, lastUpsert, issued, authz, hitByIP, gate, tx,
                   logins, boot, env, mirror>>

\* SELECT failed_attempts, locked_until ... WHERE username = $1 FOR UPDATE;
\* sql.ErrNoRows gives failed = 0 and no lock deadline
RegSelect(p) ==
    LET cur == GetLoginAttempt(auth_login_attempts, rfa[p].username)
        found == \E a \in auth_login_attempts : a.username = rfa[p].username
        others == \E q \in Procs \ {p} : /\ rfa[q].pc \in Registering
                                         /\ rfa[q].username = rfa[p].username
    IN  /\ rfa[p].pc = "begun"
        /\ found => rfa[p].username \notin KeysHeldByOthers(p)
        /\ rfa' = [rfa EXCEPT ![p].pc = "read",
                              ![p].failed = cur.FailedAttempts,
                              ![p].lockedUntil = cur.LockedUntil,
                              ![p].held = found]
        /\ serial' = [serial EXCEPT !.raced = serial.raced \/ (~found /\ others)]
        /\ UNCHANGED <<now, users, auth_login_attempts, auth_refresh_tokens,
                       auth_login_ip_limits, nextSeq, consec, deadline, rotated,
                       revoked, rot, wins, asked, ipCalls, ipAllowed, ipWindow,
                       inst, lastUpsert, issued, authz, hitByIP, gate, tx,
                       logins, boot, env, mirror>>

\* if lockedUntil.Valid && now.Before(lockedUntil.Time): commit and return
\* the deadline; otherwise failed++ and the values of the upsert
RegCheck(p) ==
    /\ rfa[p].pc = "read"
    /\ IF LockActive(rfa[p].lockedUntil, rfa[p].now)
       THEN /\ rfa' = [rfa EXCEPT ![p].pc = "done", ![p].held = FALSE]
            /\ serial' = [serial EXCEPT !.tbl =
                            RegisterFailedAttempt(serial.tbl, rfa[p].username,
                                maxAttempts, lockDuration, rfa[p].now).tbl]
       ELSE /\ rfa' = [rfa EXCEPT ![p].pc = "computed"]
            /\ UNCHANGED serial
    /\ UNCHANGED <<now, users, auth_login_attempts, auth_refresh_tokens,
                   auth_login_ip_limits, nextSeq, consec, deadline, rotated,
                   revoked, rot, wins, asked, ipCalls, ipAllowed, ipWindow,
                   inst, lastUpsert, issued, authz, hitByIP, gate, tx,
                   logins, boot, env, mirror>>

\* INSERT ... ON CONFLICT (username) DO UPDATE SET ... = EXCLUDED. ...
RegUpsert(p) ==
    /\ rfa[p].pc = "computed"
    /\ rfa[p].username \notin KeysHeldByOthers(p)
    /\ rfa' = [rfa EXCEPT ![p].pc = "upserted", ![p].held = TRUE]
    /\ UNCHANGED <<now, users, auth_login_attempts, auth_refresh_tokens,
                   auth_login_ip_limits, nextSeq, consec, deadline, rotated,
                   revoked, rot, wins, asked, ipCalls, ipAllowed, ipWindow,
                   inst, lastUpsert, issued, authz, hitByIP, gate, serial,
                   tx, logins, boot, env, mirror>>

\* tx.Commit: the written row becomes visible and the row is released
RegCommit(p) ==
    LET row == NextAttemptRow(rfa[p].username, rfa[p].failed, maxAttempts,
                              lockDuration, rfa[p].now)
    IN  /\ rfa[p].pc = "upserted"
        /\ auth_login_attempts' =
               {a \in auth_login_attempts : a.username # rfa[p].username}
                   \cup {row}
        /\ rfa' = [rfa EXCEPT ![p].pc = "done", ![p].held = FALSE]
        /\ serial' = [serial EXCEPT !.tbl =
                        RegisterFailedAttempt(serial.tbl, rfa[p].username,
                            maxAttempts, lockDuration, rfa[p].now).tbl]
        /\ UNCHANGED <<now, users, auth_refresh_tokens,
                       auth_login_ip_limits, nextSeq, consec, deadline, rotated,
                       revoked, rot, wins, asked, ipCalls, ipAllowed, ipWindow,
                       inst, lastUpsert, issued, authz, hitByIP, gate, tx,
                       logins, boot, env, mirror>>

NextAttempts ==
    \/ Tick
    \/ \E p \in Procs, u \in Usernames : RegBegin(p, u)
    \/ \E p \in Procs : RegSelect(p)
    \/ \E p \in Procs : RegCheck(p)
    \/ \E p \in Procs : RegUpsert(p)
    \/ \E p \in Procs : RegCommit(p)

SpecAttempts == Init /\ [][NextAttempts]_vars

(***************************************************************************)
(* The three transactions with their error returns (SpecTx).  One call at  *)
(* a time: BeginTx, the statements in the order of the code, each working  *)
(* on the transaction's own copy of the tables, and then either tx.Commit  *)
(* or a return with an error, on which the deferred tx.Rollback runs.  The *)
(* context can be cancelled, or time out, before any statement and before  *)
(* the commit.                                                             *)
(***************************************************************************)
MaxCalls == 2
MaxLogins == 3

Running == {"begun", "locked", "checked", "inserted", "read", "computed",
            "selected", "written", "ready"}

Stored == [users |-> users, attempts |-> auth_login_attempts,
           tokens |-> auth_refresh_tokens]

\* tx.Commit: the transaction's tables become the stored ones
Commit(stored, work) == work

Rollback_KeepsWrites(stored, work) == work

\* defer tx.Rollback(): the stored tables stay as they are
Rollback(stored, work) == stored

\* the call returns e and leaves the tables tbls
Returns(e, tbls) ==
    /\ users' = tbls.users
    /\ auth_login_attempts' = tbls.attempts
    /\ auth_refresh_tokens' = tbls.tokens
    /\ tx' = [IdleTx EXCEPT !.op = tx.op, !.pc = "done", !.err = e,
                            !.wrote = tx.wrote, !.intact = (tbls = tx.before),
                            !.calls = tx.calls]

\* the call goes on to its next statement
GoesOn(next) ==
    /\ tx' = next
    /\ UNCHANGED <<users, auth_login_attempts, auth_refresh_tokens>>

\* RotateRefreshToken up to BeginTx
TxRotate(tok) ==
    /\ tx.pc \in {"idle", "done"}
    /\ tx.calls < MaxCalls
    /\ TrimToken(tok).raw # EmptyToken
    /\ nextSeq <= MaxTokens
    /\ tx' = [IdleTx EXCEPT !.op = "rotate", !.pc = "begun",
                            !.old = TrimToken(tok), !.now = now, !.id = nextSeq,
                            !.work = Stored, !.before = Stored,
                            !.calls = tx.calls + 1]
    /\ nextSeq' = nextSeq + 1
    /\ UNCHANGED <<now, users, auth_login_attempts, auth_refresh_tokens,
                   auth_login_ip_limits, consec, deadline, rotated, revoked,
                   rot, wins, asked, ipCalls, ipAllowed, ipWindow, inst,
                   lastUpsert, issued, authz, hitByIP, gate, rfa, serial,
                   logins, boot, env, mirror>>

\* RegisterFailedAttempt up to BeginTx
TxRegister(username) ==
    /\ tx.pc \in {"idle", "done"}
    /\ tx.calls < MaxCalls
    /\ tx' = [IdleTx EXCEPT !.op = "register", !.pc = "begun",
                            !.username = username, !.now = now,
                            !.work = Stored, !.before = Stored,
                            !.calls = tx.calls + 1]
    /\ UNCHANGED <<now, users, auth_login_attempts, auth_refresh_tokens,
                   auth_login_ip_limits, nextSeq, consec, deadline, rotated,
                   revoked, rot, wins, asked, ipCalls, ipAllowed, ipWindow, inst,
                   lastUpsert, issued, authz, hitByIP, gate, rfa, serial,
                   logins, boot, env, mirror>>

\* UpsertSingleUser up to BeginTx
TxUpsert(username, plainPassword) ==
    /\ tx.pc \in {"idle", "done"}
    /\ tx.calls < MaxCalls
    /\ tx' = [IdleTx EXCEPT !.op = "upsert", !.pc = "begun",
                            !.username = username, !.password = plainPassword,
                            !.now = now, !.id = 100 + nextSeq,
                            !.work = Stored, !.before = Stored,
                            !.calls = tx.calls + 1]
    /\ UNCHANGED <<now, users, auth_login_attempts, auth_refresh_tokens,
                   auth_login_ip_limits, nextSeq, consec, deadline, rotated,
                   revoked, rot, wins, asked, ipCalls, ipAllowed, ipWindow, inst,
                   lastUpsert, issued, authz, hitByIP, gate, rfa, serial,
                   logins, boot, env, mirror>>

\* the statements of RotateRefreshToken: SELECT ... FOR UPDATE, the check of
\* revoked_at and expires_at, the INSERT, the UPDATE
RotateStatement ==
    /\ tx.op = "rotate"
    /\ tx.pc \in {"begun", "locked", "checked", "inserted"}
    /\ CASE tx.pc = "begun" ->
              LET rows == RowsByHash(tx.work.tokens, tx.old)
              IN  IF rows = {}
                  THEN Returns("ErrInvalidRefreshToken", Rollback(Stored, tx.work))
                  ELSE GoesOn([tx EXCEPT !.pc = "locked", !.sel = rows])
         [] tx.pc = "locked" ->
              IF \E r \in tx.sel : RotationRejected(r, tx.now)
              THEN Returns("ErrInvalidRefreshToken", Rollback(Stored, tx.work))
              ELSE GoesOn([tx EXCEPT !.pc = "checked"])
         [] tx.pc = "checked" ->
              \E old \in tx.sel :
                  GoesOn([tx EXCEPT !.pc = "inserted", !.wrote = TRUE,
                             !.work.tokens =
                                 CreateRefreshToken(tx.work.tokens, tx.id,
                                     old.user_id, RandomToken(tx.id),
                                     tx.now + refreshTTL, tx.now)])
         [] tx.pc = "inserted" ->
              \E old \in tx.sel :
                  GoesOn([tx EXCEPT !.pc = "ready",
                             !.work.tokens = MarkReplaced(tx.work.tokens, old.id,
                                                          tx.now, tx.id)])
    /\ UNCHANGED <<now, auth_login_ip_limits, nextSeq, consec, deadline, rotated,
                   revoked, rot, wins, asked, ipCalls, ipAllowed, ipWindow, inst,
                   lastUpsert, issued, authz, hitByIP, gate, rfa, serial,
                   logins, boot, env, mirror>>

\* the statements of RegisterFailedAttempt: SELECT ... FOR UPDATE, the return
\* of a lock that is active (after a commit), the upsert
RegisterStatement ==
    LET cur == GetLoginAttempt(tx.work.attempts, tx.username)
        row == NextAttemptRow(tx.username, cur.FailedAttempts, maxAttempts,
                              lockDuration, tx.now)
    IN  /\ tx.op = "register"
        /\ tx.pc \in {"begun", "read", "computed"}
        /\ CASE tx.pc = "begun" ->
                  GoesOn([tx EXCEPT !.pc = "read",
                             !.sel = {a \in tx.work.attempts :
                                        a.username = tx.username}])
             [] tx.pc = "read" ->
                  IF LockActive(cur.LockedUntil, tx.now)
                  THEN Returns("nil", Commit(Stored, tx.work))
                  ELSE GoesOn([tx EXCEPT !.pc = "computed"])
             [] tx.pc = "computed" ->
                  GoesOn([tx EXCEPT !.pc = "ready", !.wrote = TRUE,
                             !.work.attempts =
                                 {a \in tx.work.attempts :
                                    a.username # tx.username} \cup {row}])
        /\ UNCHANGED <<now, auth_login_ip_limits, nextSeq, consec, deadline,
                       rotated, revoked, rot, wins, asked, ipCalls, ipAllowed,
                       ipWindow, inst, lastUpsert, issued, authz, hitByIP, gate,
                       rfa, serial, logins, boot, env, mirror>>

CascadeTokens_Truncates(tokens, usersLeft) == {}

\* user_id REFERENCES users(id) ON DELETE CASCADE: the refresh tokens of the
\* deleted users go with them
CascadeTokens(tokens, usersLeft) ==
    {r \in tokens : \E u \in usersLeft : u.id = r.user_id}

\* the statements of UpsertSingleUser: the SELECT of the earliest user, the
\* INSERT or the UPDATE (which users_username_unique can refuse), and the
\* DELETE of the other users, which takes their refresh tokens with them
UpsertStatement ==
    LET hash == GenerateFromPassword(tx.password)
    IN  /\ tx.op = "upsert"
        /\ tx.pc \in {"begun", "selected", "written"}
        /\ CASE tx.pc = "begun" ->
                  IF tx.work.users = {}
                  THEN GoesOn([tx EXCEPT !.pc = "selected", !.sel = {}])
                  ELSE \E e \in EarliestUsers(tx.work.users) :
                          GoesOn([tx EXCEPT !.pc = "selected", !.sel = {e},
                                            !.id = e.id])
             [] tx.pc = "selected" ->
                  IF tx.sel = {}
                  THEN GoesOn([tx EXCEPT !.pc = "written", !.wrote = TRUE,
                                  !.work.users = tx.work.users \cup
                                      {[id |-> tx.id, username |-> tx.username,
                                        password_hash |-> hash,
                                        created_at |-> tx.now,
                                        updated_at |-> tx.now]}])
                  ELSE IF UsernameTaken(tx.work.users, tx.id, tx.username)
                  THEN Returns("update admin user", Rollback(Stored, tx.work))
                  ELSE GoesOn([tx EXCEPT !.pc = "written", !.wrote = TRUE,
                                  !.work.users =
                                      {IF u.id = tx.id
                                       THEN [u EXCEPT !.username = tx.username,
                                                      !.password_hash = hash,
                                                      !.updated_at = tx.now]
                                       ELSE u : u \in tx.work.users}])
             [] tx.pc = "written" ->
                  GoesOn([tx EXCEPT !.pc = "ready",
                             !.work.users = DeleteOtherUsers(tx.work.users, tx.id),
                             !.work.tokens =
                                 CascadeTokens(tx.work.tokens,
                                     DeleteOtherUsers(tx.work.users, tx.id))])
        /\ UNCHANGED <<now, auth_login_ip_limits, nextSeq, consec, deadline,
                       rotated, revoked, rot, wins, asked, ipCalls, ipAllowed,
                       ipWindow, inst, lastUpsert, issued, authz, hitByIP, gate,
                       rfa, serial, logins, boot, env, mirror>>

\* tx.Commit and return nil
TxCommit ==
    /\ tx.pc = "ready"
    /\ Returns("nil", Commit(Stored, tx.work))
    /\ UNCHANGED <<now, auth_login_ip_limits, nextSeq, consec, deadline, rotated,
                   revoked, rot, wins, asked, ipCalls, ipAllowed, ipWindow, inst,
                   lastUpsert, issued, authz, hitByIP, gate, rfa, serial,
                   logins, boot, env, mirror>>

\* the context is cancelled or times out: the next statement, or the commit,
\* fails and the call returns its error
TxCancel ==
    /\ tx.pc \in Running
    /\ Returns("context canceled", Rollback(Stored, tx.work))
    /\ UNCHANGED <<now, auth_login_ip_limits, nextSeq, consec, deadline, rotated,
                   revoked, rot, wins, asked, ipCalls, ipAllowed, ipWindow, inst,
                   lastUpsert, issued, authz, hitByIP, gate, rfa, serial,
                   logins, boot, env, mirror>>

NextTx ==
    \/ Tick
    \/ \E tok \in Presentable : TxRotate(tok)
    \/ \E u \in Usernames : TxRegister(u)
    \/ \E u \in Usernames : TxUpsert(u, "secret-pass-01")
    \/ RotateStatement
    \/ RegisterStatement
    \/ UpsertStatement
    \/ TxCommit
    \/ TxCancel

\* the refresh tokens of users who logged in at time 0, one token a user
TokensAtStart(tbl) ==
    {{}} \cup {CreateRefreshToken({}, 1, u.id, RandomToken(1), refreshTTL, 0) :
                 u \in tbl}
         \cup UNION {{CreateRefreshToken(
                         CreateRefreshToken({}, 1, u.id, RandomToken(1),
                                            refreshTTL, 0),
                         2, v.id, RandomToken(2), refreshTTL, 0) :
                        v \in tbl \ {u}} : u \in tbl}

\* the row of a username that failed maxAttempts logins at time 0
LockedAtStart == NextAttemptRow("admin", maxAttempts - 1, maxAttempts,
                                lockDuration, 0)

\* the calls start at time 1 from a table of no, one or two users
InitTx ==
    /\ now = 1
    /\ users \in {tbl \in UserTables :
                    \A u \in tbl : /\ u.created_at = 0 /\ u.id <= 2
                                   /\ u.username \in Usernames}
    /\ auth_login_attempts \in {{}, {LockedAtStart}}
    /\ auth_refresh_tokens \in TokensAtStart(users)
    /\ auth_login_ip_limits = {}
    /\ nextSeq = Cardinality(auth_refresh_tokens) + 1
    /\ consec = [u \in Usernames |-> 0]
    /\ deadline = [u \in Usernames |-> NULL]
    /\ rotated = {}
    /\ revoked = {}
    /\ rot = [p \in Procs |-> IdleProc]
    /\ wins = [t \in 1 .. MaxTokens |-> 0]
    /\ asked = {}
    /\ ipCalls = [ip \in IPs |-> [w \in 0 .. MaxTime |-> 0]]
    /\ ipAllowed = [ip \in IPs |-> [w \in 0 .. MaxTime |-> 0]]
    /\ ipWindow = [ip \in IPs |-> [start |-> NULL, n |-> 0]]
    /\ inst = [p \in Procs |-> IdleCall]
    /\ lastUpsert = NoUpsert(Cardinality(users))
    /\ issued = {}
    /\ authz = NoRequest
    /\ hitByIP = <<>>
    /\ gate = NoGate
    /\ rfa = [p \in Procs |-> IdleFailure]
    /\ serial = NoFailures
    /\ tx = IdleTx
    /\ logins = NoLogins
    /\ boot = [p \in Procs |-> IdleBoot]
    /\ env = NoEnv
    /\ mirror = NoMirror

SpecTx == InitTx /\ [][NextTx]_vars

(***************************************************************************)
(* The in-memory limiter under concurrent requests.  Middleware reads the  *)
(* clock when the request arrives and calls allow, which computes its      *)
(* threshold and only then takes the mutex; the body of allow runs under   *)
(* the mutex, one call at a time, with the time the request read.          *)
(***************************************************************************)
\* Middleware: ip := clientIP(r); now := time.Now().UTC()
LimBegin(p, ip) ==
    /\ inst[p].pc \in {"idle", "done"}
    /\ CallsMade < MaxIPCalls
    /\ inst' = [inst EXCEPT ![p] =
                  [pc |-> "called", ip |-> ip, now |-> now, snapshot |-> {},
                   allowed |-> FALSE, overlap |-> inst[p].overlap]]
    /\ UNCHANGED <<now, users, auth_login_attempts, auth_refresh_tokens,
                   auth_login_ip_limits, nextSeq, consec, deadline, rotated,
                   revoked, rot, wins, asked, ipCalls, ipAllowed, ipWindow,
                   lastUpsert, issued, authz, hitByIP, gate, rfa, serial, tx,
                   logins, boot, env, mirror>>

\* allow between l.mu.Lock() and the deferred l.mu.Unlock(): the whole
\* body is one step, no other call touches the map meanwhile
LimAllow(p) ==
    LET ip == inst[p].ip
        res == LimiterMiddleware(hitByIP, ip, inst[p].now)
    IN  /\ inst[p].pc = "called"
        /\ hitByIP' = res.hits
        /\ inst' = [inst EXCEPT ![p].pc = "done", ![p].allowed = res.allowed,
                                ![p].overlap = @ \/ inst[p].now < now]
        /\ ipCalls' = [ipCalls EXCEPT ![ip][inst[p].now] = @ + 1]
        /\ ipAllowed' = [ipAllowed EXCEPT ![ip][inst[p].now] =
                            IF res.allowed THEN @ + 1 ELSE @]
        /\ UNCHANGED <<now, users, auth_login_attempts, auth_refresh_tokens,
                       auth_login_ip_limits, nextSeq, consec, deadline,
                       rotated, revoked, rot, wins, asked, ipWindow,
                       lastUpsert, issued, authz, gate, rfa, serial, tx,
                       logins, boot, env, mirror>>

NextLimiter ==
    \/ Tick
    \/ \E p \in Procs, ip \in IPs : LimBegin(p, ip)
    \/ \E p \in Procs : LimAllow(p)

SpecLimiter == Init /\ [][NextLimiter]_vars

(***************************************************************************)
(* The in-memory limiter next to a limiter that never evicts.  mirror.hits *)
(* is the map of a limiter that runs the same calls without the eviction   *)
(* loop; mirror.same says that so far every call got the same allowed and  *)
(* retryAfter from both.                                                   *)
(***************************************************************************)
\* allow without lines 77-83
allowWithoutEviction(hits, ip, maxH, win, t) ==
    LET threshold == t - win
        filtered == RecentHits(HitsOf(hits, ip), threshold)
        retryAfter == filtered[1] + win - t
    IN  IF Len(filtered) >= maxH
        THEN [allowed |-> FALSE,
              retryAfter |-> IF retryAfter < 1 THEN 1 ELSE retryAfter,
              hits |-> PutHits(hits, ip, filtered)]
        ELSE [allowed |-> TRUE, retryAfter |-> 0,
              hits |-> PutHits(hits, ip, Append(filtered, t))]

\* allow between l.mu.Lock() and the deferred l.mu.Unlock(), with the time
\* Middleware read before
EvAllow(p) ==
    LET ip == inst[p].ip
        res == allow(hitByIP, ip, maxHits, window, inst[p].now)
        ref == allowWithoutEviction(mirror.hits, ip, maxHits, window, inst[p].now)
    IN  /\ inst[p].pc = "called"
        /\ hitByIP' = res.hits
        /\ mirror' = [hits |-> ref.hits,
                      same |-> /\ mirror.same
                               /\ res.allowed = ref.allowed
                               /\ res.retryAfter = ref.retryAfter]
        /\ inst' = [inst EXCEPT ![p].pc = "done", ![p].allowed = res.allowed,
                                ![p].overlap = @ \/ inst[p].now < now]
        /\ ipCalls' = [ipCalls EXCEPT ![ip][inst[p].now] = @ + 1]
        /\ UNCHANGED <<now, users, auth_login_attempts, auth_refresh_tokens,
                       auth_login_ip_limits, nextSeq, consec, deadline,
                       rotated, revoked, rot, wins, asked, ipAllowed, ipWindow,
                       lastUpsert, issued, authz, gate, rfa, serial, tx,
                       logins, boot, env>>

NextEvict ==
    \/ Tick
    \/ \E p \in Procs, ip \in IPs : LimBegin(p, ip)
    \/ \E p \in Procs : EvAllow(p)

SpecEvict == Init /\ [][NextEvict]_vars

(***************************************************************************)
(* Concurrent logins.  Service.Login reads the clock, reads the attempt    *)
(* row, looks the user up and compares the password, and then either       *)
(* registers the failure or resets the attempts and issues the tokens;     *)
(* each of these is a statement of its own on the shared store, and the    *)
(* statements of other requests run between them.  logins.locks holds the  *)
(* lock rows that were committed, logins.early the usernames that got      *)
(* tokens while a committed lock of theirs had not ended.                  *)
(***************************************************************************)
ConcurrentLogins == {<<"admin", "secret-pass-01">>, <<"admin", "secret-pass-02">>,
                     <<"ghost", "secret-pass-01">>}

LoginStep(p, rec) == [logins EXCEPT !.proc[p] = rec]

\* Login up to now := time.Now().UTC()
LgBegin(p, username0, password0) ==
    LET username == TrimSpace(ToLower(username0))
        password == TrimSpace(password0)
    IN  /\ logins.proc[p].pc \in {"idle", "done"}
        /\ logins.calls < MaxLogins
        /\ username # "" /\ password # ""
        /\ logins' = [logins EXCEPT
                         !.proc[p] = [IdleLogin EXCEPT !.pc = "began",
                                         !.username = username,
                                         !.password = password, !.now = now],
                         !.calls = @ + 1]
        /\ UNCHANGED <<now, users, auth_login_attempts, auth_refresh_tokens,
                       auth_login_ip_limits, nextSeq, consec, deadline,
                       rotated, revoked, rot, wins, asked, ipCalls, ipAllowed,
                       ipWindow, inst, lastUpsert, issued, authz, hitByIP,
                       gate, rfa, serial, tx, boot, env, mirror>>

\* GetLoginAttempt and the test of the lock, then GetByUsername and
\* bcrypt.CompareHashAndPassword: the users table does not change here
LgGet(p) ==
    LET me == logins.proc[p]
        attempt == GetLoginAttempt(auth_login_attempts, me.username)
        found == GetByUsername(users, me.username)
        user == CHOOSE u \in found : TRUE
    IN  /\ me.pc = "began"
        /\ logins' = LoginStep(p,
              IF LoginLocked(attempt, me.now) THEN [me EXCEPT !.pc = "done"]
              ELSE IF found = {} THEN [me EXCEPT !.pc = "failed"]
              ELSE IF ~CompareHashAndPassword(user.password_hash, me.password)
              THEN [me EXCEPT !.pc = "failed"]
              ELSE [me EXCEPT !.pc = "passed", !.userID = user.id])
        /\ UNCHANGED <<now, users, auth_login_attempts, auth_refresh_tokens,
                       auth_login_ip_limits, nextSeq, consec, deadline,
                       rotated, revoked, rot, wins, asked, ipCalls, ipAllowed,
                       ipWindow, inst, lastUpsert, issued, authz, hitByIP,
                       gate, rfa, serial, tx, boot, env, mirror>>

\* RegisterFailedAttempt with the time Login read, as one transaction
LgRegister(p) ==
    LET me == logins.proc[p]
        reg == RegisterFailedAttempt(auth_login_attempts, me.username,
                                     maxAttempts, lockDuration, me.now)
    IN  /\ me.pc = "failed"
        /\ auth_login_attempts' = reg.tbl
        /\ logins' = [logins EXCEPT
                         !.proc[p].pc = "done",
                         !.locks = @ \cup {a \in reg.tbl \ auth_login_attempts :
                                              a.locked_until # NULL}]
        /\ UNCHANGED <<now, users, auth_refresh_tokens, auth_login_ip_limits,
                       nextSeq, consec, deadline, rotated, revoked, rot, wins,
                       asked, ipCalls, ipAllowed, ipWindow, inst, lastUpsert,
                       issued, authz, hitByIP, gate, rfa, serial, tx, boot,
                       env, mirror>>

\* ResetLoginAttempt
LgReset(p) ==
    LET me == logins.proc[p]
    IN  /\ me.pc = "passed"
        /\ auth_login_attempts' = ResetLoginAttempt(auth_login_attempts, me.username)
        /\ logins' = LoginStep(p, [me EXCEPT !.pc = "reset"])
        /\ UNCHANGED <<now, users, auth_refresh_tokens, auth_login_ip_limits,
                       nextSeq, consec, deadline, rotated, revoked, rot, wins,
                       asked, ipCalls, ipAllowed, ipWindow, inst, lastUpsert,
                       issued, authz, hitByIP, gate, rfa, serial, tx, boot,
                       env, mirror>>

\* issueTokens: the refresh token is stored and the pair returned
LgIssue(p) ==
    LET me == logins.proc[p]
    IN  /\ me.pc = "reset"
        /\ nextSeq <= MaxTokens
        /\ auth_refresh_tokens' =
              CreateRefreshToken(auth_refresh_tokens, nextSeq, me.userID,
                                 RandomToken(nextSeq), now + refreshTTL, now)
        /\ nextSeq' = nextSeq + 1
        /\ logins' = [logins EXCEPT
                         !.proc[p].pc = "done",
                         !.early = @ \cup {l.username : l \in
                                      {k \in logins.locks :
                                          /\ k.username = me.username
                                          /\ now < k.locked_until}}]
        /\ UNCHANGED <<now, users, auth_login_attempts, auth_login_ip_limits,
                       consec, deadline, rotated, revoked, rot, wins, asked,
                       ipCalls, ipAllowed, ipWindow, inst, lastUpsert, issued,
                       authz, hitByIP, gate, rfa, serial, tx, boot, env,
                       mirror>>

NextLogins ==
    \/ Tick
    \/ \E p \in Procs, c \in ConcurrentLogins : LgBegin(p, c[1], c[2])
    \/ \E p \in Procs : LgGet(p)
    \/ \E p \in Procs : LgRegister(p)
    \/ \E p \in Procs : LgReset(p)
    \/ \E p \in Procs : LgIssue(p)

SpecLogins == InitLedger /\ [][NextLogins]_vars

(***************************************************************************)
(* Concurrent bootstraps.  Two instances run UpsertSingleUser at once,     *)
(* each in its own READ COMMITTED transaction: a statement sees the rows   *)
(* committed when it starts and the transaction's own writes; an UPDATE    *)
(* or DELETE waits for a row another transaction has written, an INSERT    *)
(* or UPDATE waits for a username another transaction has written          *)
(* (users_username_unique), and the rows another transaction has inserted  *)
(* and not committed are not seen at all.  boot[p] holds the rows p has    *)
(* inserted (ins), the new version of the row it has updated (upd) and     *)
(* the ids it has deleted (del).                                           *)
(***************************************************************************)
Bootstrapping == {"begun", "insert", "update", "delete", "commit"}

\* the ids of the committed rows p holds a row lock on
LockedIDs(p) == {u.id : u \in boot[p].upd} \cup boot[p].del

\* the usernames p has written and not committed
PendingNames(p) == {u.username : u \in boot[p].ins \cup boot[p].upd}

\* the committed rows p's DELETE ... WHERE id <> $1 matches
OtherUsers(p) == {u \in users : u.id # boot[p].existingID}

\* the row locks and the unique key p's next statement needs
NeedsIDs(p) ==
    CASE boot[p].pc = "update" ->
            {u.id : u \in {v \in users : v.id = boot[p].existingID}}
      [] boot[p].pc = "delete" -> {u.id : u \in OtherUsers(p)}
      [] OTHER -> {}

NeedsName(p) ==
    CASE boot[p].pc = "insert" -> {boot[p].username}
      [] boot[p].pc = "update" ->
            IF \E u \in users : /\ u.id = boot[p].existingID
                                /\ u.username # boot[p].username
            THEN {boot[p].username} ELSE {}
      [] OTHER -> {}

\* p's next statement waits for q to commit or roll back
WaitsFor(p, q) ==
    /\ q # p
    /\ \/ NeedsIDs(p) \cap LockedIDs(q) # {}
       \/ NeedsName(p) \cap PendingNames(q) # {}
       \/ \E u \in users : u.username \in NeedsName(p) /\ u.id \in LockedIDs(q)

Blocked(p) == \E q \in Procs : WaitsFor(p, q)

\* the call returns e; its transaction is rolled back
BootFails(p, e) ==
    boot' = [boot EXCEPT ![p].pc = "done", ![p].err = e, ![p].ins = {},
                         ![p].upd = {}, ![p].del = {}]

\* UpsertSingleUser up to BeginTx
BtBegin(p, username, plainPassword) ==
    /\ boot[p].pc = "idle"
    /\ boot' = [boot EXCEPT ![p] =
                  [IdleBoot EXCEPT !.pc = "begun", !.username = username,
                       !.password = plainPassword, !.now = now,
                       !.id = 100 + (CHOOSE i \in 1 .. 2 :
                                        (i = 1) = (p = "p1")),
                       !.overlap = \E q \in Procs \ {p} :
                                      boot[q].pc \in Bootstrapping]]
    /\ UNCHANGED users
    /\ UNCHANGED <<now, auth_login_attempts, auth_refresh_tokens,
                       auth_login_ip_limits, nextSeq, consec, deadline,
                       rotated, revoked, rot, wins, asked, ipCalls, ipAllowed,
                       ipWindow, inst, lastUpsert, issued, authz, hitByIP,
                       gate, rfa, serial, tx, logins, env, mirror>>

\* SELECT id FROM users ORDER BY created_at ASC LIMIT 1
BtSelect(p) ==
    /\ boot[p].pc = "begun"
    /\ IF users = {}
       THEN boot' = [boot EXCEPT ![p].pc = "insert",
                                 ![p].existingID = boot[p].id]
       ELSE \E e \in EarliestUsers(users) :
               boot' = [boot EXCEPT ![p].pc = "update", ![p].existingID = e.id]
    /\ UNCHANGED users
    /\ UNCHANGED <<now, auth_login_attempts, auth_refresh_tokens,
                       auth_login_ip_limits, nextSeq, consec, deadline,
                       rotated, revoked, rot, wins, asked, ipCalls, ipAllowed,
                       ipWindow, inst, lastUpsert, issued, authz, hitByIP,
                       gate, rfa, serial, tx, logins, env, mirror>>

\* INSERT INTO users (id, username, password_hash, created_at, updated_at)
BtInsert(p) ==
    /\ boot[p].pc = "insert"
    /\ ~Blocked(p)
    /\ IF \E u \in users : u.username = boot[p].username
       THEN BootFails(p, "insert admin user")
       ELSE boot' = [boot EXCEPT ![p].pc = "delete",
                        ![p].ins = {[id |-> boot[p].id,
                                     username |-> boot[p].username,
                                     password_hash |->
                                         GenerateFromPassword(boot[p].password),
                                     created_at |-> boot[p].now,
                                     updated_at |-> boot[p].now]}]
    /\ UNCHANGED users
    /\ UNCHANGED <<now, auth_login_attempts, auth_refresh_tokens,
                       auth_login_ip_limits, nextSeq, consec, deadline,
                       rotated, revoked, rot, wins, asked, ipCalls, ipAllowed,
                       ipWindow, inst, lastUpsert, issued, authz, hitByIP,
                       gate, rfa, serial, tx, logins, env, mirror>>

\* UPDATE users SET username = $2, password_hash = $3, updated_at = $4
\* WHERE id = $1, on the committed version of the row once it is free
BtUpdate(p) ==
    LET rows == {u \in users : u.id = boot[p].existingID}
    IN  /\ boot[p].pc = "update"
        /\ ~Blocked(p)
        /\ IF rows # {} /\ UsernameTaken(users, boot[p].existingID,
                                         boot[p].username)
           THEN BootFails(p, "update admin user")
           ELSE boot' = [boot EXCEPT ![p].pc = "delete",
                            ![p].upd = {[u EXCEPT
                                           !.username = boot[p].username,
                                           !.password_hash =
                                               GenerateFromPassword(boot[p].password),
                                           !.updated_at = boot[p].now] :
                                        u \in rows}]
        /\ UNCHANGED users
        /\ UNCHANGED <<now, auth_login_attempts, auth_refresh_tokens,
                       auth_login_ip_limits, nextSeq, consec, deadline,
                       rotated, revoked, rot, wins, asked, ipCalls, ipAllowed,
                       ipWindow, inst, lastUpsert, issued, authz, hitByIP,
                       gate, rfa, serial, tx, logins, env, mirror>>

\* DELETE FROM users WHERE id <> $1
BtDelete(p) ==
    /\ boot[p].pc = "delete"
    /\ ~Blocked(p)
    /\ boot' = [boot EXCEPT ![p].pc = "commit",
                            ![p].del = {u.id : u \in OtherUsers(p)}]
    /\ UNCHANGED users
    /\ UNCHANGED <<now, auth_login_attempts, auth_refresh_tokens,
                       auth_login_ip_limits, nextSeq, consec, deadline,
                       rotated, revoked, rot, wins, asked, ipCalls, ipAllowed,
                       ipWindow, inst, lastUpsert, issued, authz, hitByIP,
                       gate, rfa, serial, tx, logins, env, mirror>>

\* tx.Commit and return nil
BtCommit(p) ==
    /\ boot[p].pc = "commit"
    /\ users' = {u \in users : u.id \notin LockedIDs(p)}
                   \cup boot[p].upd \cup boot[p].ins
    /\ boot' = [boot EXCEPT ![p].pc = "done", ![p].err = "nil", ![p].ins = {},
                            ![p].upd = {}, ![p].del = {}]
    /\ UNCHANGED <<now, auth_login_attempts, auth_refresh_tokens,
                       auth_login_ip_limits, nextSeq, consec, deadline,
                       rotated, revoked, rot, wins, asked, ipCalls, ipAllowed,
                       ipWindow, inst, lastUpsert, issued, authz, hitByIP,
                       gate, rfa, serial, tx, logins, env, mirror>>

\* two transactions wait for each other: the database aborts one of them
BtDeadlock(p) ==
    /\ boot[p].pc \in Bootstrapping
    /\ \E q \in Procs : WaitsFor(p, q) /\ WaitsFor(q, p)
    /\ BootFails(p, "deadlock detected")
    /\ UNCHANGED users
    /\ UNCHANGED <<now, auth_login_attempts, auth_refresh_tokens,
                       auth_login_ip_limits, nextSeq, consec, deadline,
                       rotated, revoked, rot, wins, asked, ipCalls, ipAllowed,
                       ipWindow, inst, lastUpsert, issued, authz, hitByIP,
                       gate, rfa, serial, tx, logins, env, mirror>>

\* the instances start at time 1 on a table of no, one or two users
InitBoot ==
    /\ now = 1
    /\ users \in {tbl \in UserTables :
                    \A u \in tbl : u.id <= 2 /\ u.username \in Usernames}
    /\ auth_login_attempts = {}
    /\ auth_refresh_tokens = {}
    /\ auth_login_ip_limits = {}
    /\ nextSeq = Cardinality(auth_refresh_tokens) + 1
    /\ consec = [u \in Usernames |-> 0]
    /\ deadline = [u \in Usernames |-> NULL]
    /\ rotated = {}
    /\ revoked = {}
    /\ rot = [p \in Procs |-> IdleProc]
    /\ wins = [t \in 1 .. MaxTokens |-> 0]
    /\ asked = {}
    /\ ipCalls = [ip \in IPs |-> [w \in 0 .. MaxTime |-> 0]]
    /\ ipAllowed = [ip \in IPs |-> [w \in 0 .. MaxTime |-> 0]]
    /\ ipWindow = [ip \in IPs |-> [start |-> NULL, n |-> 0]]
    /\ inst = [p \in Procs |-> IdleCall]
    /\ lastUpsert = NoUpsert(Cardinality(users))
    /\ issued = {}
    /\ authz = NoRequest
    /\ hitByIP = <<>>
    /\ gate = NoGate
    /\ rfa = [p \in Procs |-> IdleFailure]
    /\ serial = NoFailures
    /\ tx = IdleTx
    /\ logins = NoLogins
    /\ boot = [p \in Procs |-> IdleBoot]
    /\ env = NoEnv
    /\ mirror = NoMirror

NextBoot ==
    \/ \E p \in Procs, u \in Usernames : BtBegin(p, u, "secret-pass-01")
    \/ \E p \in Procs : BtSelect(p)
    \/ \E p \in Procs : BtInsert(p)
    \/ \E p \in Procs : BtUpdate(p)
    \/ \E p \in Procs : BtDelete(p)
    \/ \E p \in Procs : BtCommit(p)
    \/ \E p \in Procs : BtDeadlock(p)

SpecBoot == InitBoot /\ [][NextBoot]_vars

(***************************************************************************)
(* The two limiters side by side, one request at a time: requests reach    *)
(* the persisted limiter (AllowIP) or the in-memory one (LimCall).         *)
(***************************************************************************)
\* Middleware of the in-memory limiter, a request served at the time it
\* arrives
LimCall(ip) ==
    /\ hitByIP' = LimiterMiddleware(hitByIP, ip, now).hits
    /\ UNCHANGED <<now, users, auth_login_attempts, auth_refresh_tokens,
                   auth_login_ip_limits, nextSeq, consec, deadline, rotated,
                   revoked, rot, wins, asked, ipCalls, ipAllowed, ipWindow,
                   inst, lastUpsert, issued, authz, gate, rfa, serial, tx,
                   logins, boot, env, mirror>>

\* the rows of the persisted limiter do not depend on each other: one IP
\* sends requests to it
PersistedIPs == {"10.0.0.1"}

NextLimits ==
    \/ Tick
    \/ \E ip \in PersistedIPs : AllowIP(ip)
    \/ \E ip \in IPs : LimCall(ip)

SpecLimits == Init /\ [][NextLimits]_vars

(***************************************************************************)
(* The administrator's credentials from the environment to the login.      *)
(* The serverless handler builds the service once and Build hands          *)
(* ADMIN_USERNAME and ADMIN_PASSWORD to BootstrapFromEnv; the              *)
(* administrator then posts the same two strings to /auth/login.  env      *)
(* holds the strings of the last bootstrap, whether it stored them, and    *)
(* the result of the last login with them.                                 *)
(***************************************************************************)
EnvCredentials == {<<" Admin", " secret-pass-01">>, <<"ghost", "secret-pass-02">>,
                   <<"admin", "short">>, <<"x", "secret-pass-02">>,
                   <<"", "">>, <<"admin", "">>}

\* a login with a wrong password, which locks the username in the end
EnvOtherLogins == {<<"admin", "secret-pass-02">>}

\* Build: BootstrapFromEnv(ctx, cfg.AdminUsername, cfg.AdminPassword)
EnvBootstrap(c) ==
    \E out \in BootstrapFromEnv(users, c[1], c[2], 100 + nextSeq, now) :
        /\ users' = out.tbl
        /\ env' = [username |-> c[1], password |-> c[2],
                   stored |-> /\ out.err = "nil"
                              /\ TrimSpace(ToLower(c[1])) # ""
                              /\ TrimSpace(c[2]) # "",
                   login |-> "none"]
        /\ UNCHANGED <<now, auth_login_attempts, auth_refresh_tokens,
                       auth_login_ip_limits, nextSeq, consec, deadline,
                       rotated, revoked, rot, wins, asked, ipCalls, ipAllowed,
                       ipWindow, inst, lastUpsert, issued, authz, hitByIP,
                       gate, rfa, serial, tx, logins, boot, mirror>>

\* Handler.Login for a request that passed the rate limit
EnvServe(rawUsername, rawPassword, result) ==
    LET out == HandlerLogin(users, auth_login_attempts, rawUsername,
                            rawPassword, now)
    IN  /\ out.result = "tokens" => nextSeq <= MaxSessions
        /\ result = out.result
        /\ auth_login_attempts' = out.attempts
        /\ auth_refresh_tokens' =
              IF out.result = "tokens"
              THEN CreateRefreshToken(auth_refresh_tokens, nextSeq, out.userID,
                                      RandomToken(nextSeq), now + refreshTTL, now)
              ELSE auth_refresh_tokens
        /\ nextSeq' = IF out.result = "tokens" THEN nextSeq + 1 ELSE nextSeq
        /\ UNCHANGED <<now, users, auth_login_ip_limits, consec, deadline,
                       rotated, revoked, rot, wins, asked, ipCalls, ipAllowed,
                       ipWindow, inst, lastUpsert, issued, authz, hitByIP,
                       gate, rfa, serial, tx, logins, boot, mirror>>

\* POST /auth/login with the strings the bootstrap stored
EnvLogin ==
    /\ env.stored
    /\ \E result \in {"tokens", "ErrInvalidCredentials", "ErrLoginLocked", "400"} :
          /\ EnvServe(env.username, env.password, result)
          /\ env' = [env EXCEPT !.login = result]

\* POST /auth/login of anybody else
EnvOtherLogin(c) ==
    /\ \E result \in {"tokens", "ErrInvalidCredentials", "ErrLoginLocked", "400"} :
          EnvServe(c[1], c[2], result)
    /\ UNCHANGED env

NextEnv ==
    \/ Tick
    \/ \E c \in EnvCredentials : EnvBootstrap(c)
    \/ EnvLogin
    \/ \E c \in EnvOtherLogins : EnvOtherLogin(c)

SpecEnv == Init /\ [][NextEnv]_vars

(***************************************************************************)
(* Claims about the refresh token ledger (SpecLedger).  Each is stated of  *)
(* every request that can be served in a reachable state.                  *)
(***************************************************************************)
RefreshOf(tok) == ServiceRefresh(auth_refresh_tokens, tok, nextSeq, now)
LogoutOf(tok) == HandlerLogout(auth_refresh_tokens, tok, now)
RowsOf(tok) == RowsByHash(auth_refresh_tokens, TrimToken(tok))
Rejected(out) ==
    /\ out.err = "ErrInvalidRefreshToken"
    /\ out.userID = NULL
    /\ out.tbl = auth_refresh_tokens

\* C1: once one rotation presenting a refresh token has succeeded, every
\* later rotation presenting that token fails with ErrInvalidRefreshToken,
\* whatever logins, refreshes, logouts and cleanup passes came between.
C1_RotatedTokenIsRejected ==
    \A tok \in Presentable : tok.raw \in rotated => Rejected(RefreshOf(tok))

\* a rotated token whose row a cleanup pass removed, and whose successor was
\* rotated in turn
C1_Witness ==
    \E tok \in Presentable :
        /\ tok.raw \in rotated /\ RowsOf(tok) = {}
        /\ Cardinality(rotated) >= 2
        /\ Rejected(RefreshOf(tok))

\* C5: a rotation presenting a token whose stored expires_at is in the past
\* fails with ErrInvalidRefreshToken, revoked or not, and inserts or
\* modifies no row.
C5_ExpiredTokenIsRejected ==
    \A tok \in Presentable :
        (\E r \in RowsOf(tok) : r.expires_at < now) => Rejected(RefreshOf(tok))

\* an expired token that was never revoked is in the ledger
C5_Witness ==
    \E tok \in Presentable :
        /\ \E r \in RowsOf(tok) : r.expires_at < now /\ r.revoked_at = NULL
        /\ Rejected(RefreshOf(tok))

\* C8: after a logout of a token completed, every later refresh presenting it
\* fails with ErrInvalidRefreshToken; a logout inserts no row and leaves
\* every replaced_by as it was (revocation without rotation).
C8_LoggedOutTokenIsRejected ==
    /\ \A tok \in Presentable : tok.raw \in revoked => Rejected(RefreshOf(tok))
    /\ \A tok \in Presentable :
          /\ {r.id : r \in LogoutOf(tok).tbl} = {r.id : r \in auth_refresh_tokens}
          /\ {<<r.id, r.replaced_by>> : r \in LogoutOf(tok).tbl}
               = {<<r.id, r.replaced_by>> : r \in auth_refresh_tokens}

\* a token that was only logged out: never rotated, not expired, still in
\* the ledger, without successor
C8_Witness ==
    \E tok \in Presentable :
        /\ tok.raw \in revoked /\ tok.raw \notin rotated
        /\ \E r \in RowsOf(tok) :
              r.expires_at > now /\ r.revoked_at # NULL /\ r.replaced_by = NULL
        /\ Rejected(RefreshOf(tok))

\* C10: a refresh presenting an empty, unknown, revoked or expired token
\* returns the single error ErrInvalidRefreshToken in each of these cases,
\* with no user id and the ledger unchanged.
C10_OneRefreshError ==
    \A tok \in Presentable :
        (\/ TrimToken(tok).raw = EmptyToken
         \/ RowsOf(tok) = {}
         \/ \E r \in RowsOf(tok) : r.revoked_at # NULL
         \/ \E r \in RowsOf(tok) : r.expires_at < now)
            => Rejected(RefreshOf(tok))

\* the four rejections can be asked for in one state: the empty token, an
\* unknown one, a revoked unexpired one and an expired unrevoked one
C10_Witness ==
    /\ \E tok \in Presentable : tok.raw = EmptyToken /\ Rejected(RefreshOf(tok))
    /\ \E tok \in Presentable :
          tok.raw # EmptyToken /\ RowsOf(tok) = {} /\ Rejected(RefreshOf(tok))
    /\ \E tok \in Presentable :
          /\ \E r \in RowsOf(tok) : r.revoked_at # NULL /\ r.expires_at >= now
          /\ Rejected(RefreshOf(tok))
    /\ \E tok \in Presentable :
          /\ \E r \in RowsOf(tok) : r.revoked_at = NULL /\ r.expires_at < now
          /\ Rejected(RefreshOf(tok))

(***************************************************************************)
(* Claims about login and lockout (Spec).  A login is a request that       *)
(* reached Service.Login.                                                  *)
(***************************************************************************)
LoginOf(u, p) == ServiceLogin(users, auth_login_attempts, u, p, now)

\* C3: the lock of a username starts with its maxAttempts-th consecutive
\* failed login and not before; every login before the lock deadline returns
\* ErrLoginLocked even with the correct password; a login with correct
\* credentials at or after the deadline returns tokens.
C3_LockedUntilDeadline ==
    \A u \in Usernames : \A p \in Passwords :
        /\ LockPhase(u) = "active" => LoginOf(u, p).result = "ErrLoginLocked"
        /\ (LockPhase(u) # "active" /\ CredentialsCorrect(u, p))
              => LoginOf(u, p).result = "tokens"
        /\ (LockPhase(u) # "active" /\ ~CredentialsCorrect(u, p))
              => LoginOf(u, p).result =
                    IF consec[u] + 1 = maxAttempts THEN "ErrLoginLocked"
                    ELSE "ErrInvalidCredentials"

\* the correct password is refused during a lock, and another username's
\* lock has run out
C3_Witness ==
    \E u, v \in Usernames : \E p \in Passwords :
        /\ LockPhase(u) = "active" /\ CredentialsCorrect(u, p)
        /\ LoginOf(u, p).result = "ErrLoginLocked"
        /\ LockPhase(v) = "expired"

\* C4: the failed login that brings the count to maxAttempts returns
\* ErrLoginLocked with Until = its time + lockDuration; every login before
\* that deadline returns ErrLoginLocked with the same Until; after the
\* deadline a correct-password login returns tokens and leaves no counter.
C4_LockDeadline ==
    \A u \in Usernames : \A p \in Passwords :
        /\ (LockPhase(u) # "active" /\ ~CredentialsCorrect(u, p)
              /\ consec[u] + 1 = maxAttempts)
              => /\ LoginOf(u, p).result = "ErrLoginLocked"
                 /\ LoginOf(u, p).until = now + lockDuration
        /\ LockPhase(u) = "active"
              => /\ LoginOf(u, p).result = "ErrLoginLocked"
                 /\ LoginOf(u, p).until = deadline[u]
        /\ (LockPhase(u) = "expired" /\ CredentialsCorrect(u, p))
              => /\ LoginOf(u, p).result = "tokens"
                 /\ \A a \in LoginOf(u, p).attempts : a.username # u
                 /\ GetLoginAttempt(LoginOf(u, p).attempts, u).FailedAttempts = 0
                 /\ GetLoginAttempt(LoginOf(u, p).attempts, u).LockedUntil = NULL

\* a lock has run out, its row is still stored and the correct password is
\* presented
C4_Witness ==
    \E u \in Usernames : \E p \in Passwords :
        /\ LockPhase(u) = "expired" /\ CredentialsCorrect(u, p)
        /\ \E a \in auth_login_attempts : a.username = u /\ a.locked_until # NULL
        /\ LoginOf(u, p).result = "tokens"
        /\ \A a \in LoginOf(u, p).attempts : a.username # u

\* C9: a login for a username that does not exist and a login for the same
\* username that exists with another password, served in the same lockout
\* state, return the same result and deadline, write the same response and
\* leave the same auth_login_attempts.
UsersWithout(username) == {u \in users : u.username # username}
UsersWith(username, password) ==
    UsersWithout(username)
        \cup {[id |-> 100, username |-> username,
                password_hash |-> GenerateFromPassword(password), created_at |-> 0,
                updated_at |-> 0]}

C9_UnknownUserLooksLikeWrongPassword ==
    \A u \in Usernames : \A p, q \in Passwords :
        p # q =>
            LET absent == ServiceLogin(UsersWithout(u), auth_login_attempts, u, p, now)
                wrong == ServiceLogin(UsersWith(u, q), auth_login_attempts, u, p, now)
            IN  /\ absent.result = wrong.result
                /\ absent.until = wrong.until
                /\ absent.attempts = wrong.attempts
                /\ absent.result \in {"ErrInvalidCredentials", "ErrLoginLocked"}
                /\ LoginResponse(absent.result, absent.until, now)
                     = LoginResponse(wrong.result, wrong.until, now)

\* one more failure locks a username that does not exist, and a username
\* that exists is one failure away from its lock too
C9_Witness ==
    \E u, v \in Usernames : \E p \in Passwords :
        /\ GetByUsername(users, u) = {} /\ consec[u] + 1 = maxAttempts
        /\ LockPhase(u) # "active"
        /\ LoginOf(u, p).result = "ErrLoginLocked"
        /\ LoginOf(u, p).branch = "notfound"
        /\ GetByUsername(users, v) # {} /\ LoginOf(v, p).branch = "mismatch"
        /\ LoginOf(v, p).result = LoginOf(u, p).result

(***************************************************************************)
(* Claims about concurrent rotations (SpecRotate)                          *)
(***************************************************************************)
\* the rows committed by rotations that presented the token t
SuccessorRows(t) == {r \in auth_refresh_tokens : <<r.id, t>> \in asked}

\* C2: of the RotateRefreshToken calls presenting one token, concurrent or
\* not, at most one returns a user id and every other one returns
\* ErrInvalidRefreshToken; the table holds exactly one successor row for a
\* token that was rotated and none for a token that was not.
C2_AtMostOneRotationWins ==
    /\ \A t \in 1 .. MaxTokens :
          /\ wins[t] <= 1
          /\ Cardinality(SuccessorRows(t)) = wins[t]
    /\ \A p \in Procs :
          rot[p].pc = "done" => rot[p].err \in {"nil", "ErrInvalidRefreshToken"}
    /\ \A p \in Procs : \A q \in Procs \ {p} :
          /\ rot[p].pc = "done" /\ rot[q].pc = "done"
          /\ rot[p].old = rot[q].old
          /\ rot[p].err = "nil"
          => rot[q].err = "ErrInvalidRefreshToken"

\* two calls presented the same usable token, the second began while the
\* first was in flight, one returned the user id and the other the error
C2_Witness ==
    \E p \in Procs : \E q \in Procs \ {p} :
        /\ rot[p].pc = "done" /\ rot[q].pc = "done"
        /\ rot[p].old = rot[q].old
        /\ rot[p].overlap \/ rot[q].overlap
        /\ rot[p].err = "nil"
        /\ rot[q].err = "ErrInvalidRefreshToken"
        /\ rot[q].rows # {}
        /\ wins[rot[p].old.raw] = 1
        /\ Cardinality(SuccessorRows(rot[p].old.raw)) = 1

(***************************************************************************)
(* Claims about the login rate limit (SpecIP, SpecIPConc)                  *)
(***************************************************************************)
AllowOf(ip) ==
    AllowLoginIP(auth_login_ip_limits, auth_login_ip_limits, ip, maxHits,
                 window, now)

\* C6: for every IP, an attempt that is among the first maxHits of its
\* window is allowed, the (maxHits+1)-th attempt of the window is denied with
\* retryAfter > 0, and the first attempt made once the window has elapsed is
\* allowed and leaves the row with hits = 1 and window_started_at = its time.
C6_FixedWindow ==
    \A ip \in IPs :
        LET out == AllowOf(ip)
            k == ipWindow[ip].n + 1
        IN  IF WindowOver(ip, now)
            THEN /\ out.allowed
                 /\ out.row.hits = 1
                 /\ out.row.window_started_at = now
                 /\ out.row \in out.tbl
            ELSE /\ k <= maxHits => out.allowed
                 /\ k = maxHits + 1 => ~out.allowed /\ out.retryAfter > 0

\* an IP was denied in its window, the window has elapsed, and the attempt
\* made now starts the next window
C6_Witness ==
    \E ip \in IPs :
        /\ ipWindow[ip].n = maxHits + 1
        /\ \E w \in 0 .. MaxTime : ipCalls[ip][w] > ipAllowed[ip][w]
        /\ ipWindow[ip].start # NULL
        /\ now >= ipWindow[ip].start + window
        /\ AllowOf(ip).row.hits = 1

\* C7: however concurrent AllowLoginIP calls for an IP interleave, the hits
\* of its row count every call made in the row's window, and no window has
\* more than maxHits allowed calls.
C7_NoHitLost ==
    \A ip \in IPs :
        /\ \A r \in auth_login_ip_limits :
              r.ip = ip => r.hits = ipCalls[ip][r.window_started_at]
        /\ Cardinality({r \in auth_login_ip_limits : r.ip = ip}) <= 1
        /\ \A w \in 0 .. MaxTime : ipAllowed[ip][w] <= maxHits

\* two calls for one IP were in flight together, with different times, the
\* window is full and one of the two was denied
C7_Witness ==
    \E p \in Procs : \E q \in Procs \ {p} :
        /\ inst[p].pc = "done" /\ inst[q].pc = "done"
        /\ inst[p].ip = inst[q].ip
        /\ inst[p].overlap \/ inst[q].overlap
        /\ inst[p].now # inst[q].now
        /\ inst[p].allowed /\ ~inst[q].allowed
        /\ \E w \in 0 .. MaxTime :
              /\ ipCalls[inst[p].ip][w] = maxHits + 1
              /\ ipAllowed[inst[p].ip][w] = maxHits

(***************************************************************************)
(* Claims about the credential store (SpecUsers, Spec)                     *)
(***************************************************************************)
\* C11: whatever users table the calls started from, once an
\* UpsertSingleUser call has succeeded the table holds exactly one row, with
\* the username and the password hash of the last successful call.
C11_SingleUser ==
    lastUpsert.calls > 0 =>
        /\ Cardinality(users) = 1
        /\ \A u \in users : /\ u.username = lastUpsert.username
                            /\ u.password_hash = lastUpsert.password_hash

\* the table started with several rows and two calls have succeeded since,
\* the second with another username than the row had
C11_Witness ==
    /\ lastUpsert.start >= 2
    /\ lastUpsert.calls = 2
    /\ lastUpsert.username = "ghost"
    /\ \E u \in users : u.username = "ghost" /\ u.updated_at > u.created_at

(***************************************************************************)
(* Claims about access tokens (SpecAccess)                                 *)
(***************************************************************************)
\* C12: a token issueAccessToken returned is verified at every time before
\* expiresIn seconds have passed since it was issued, and refused at every
\* time after they have passed.
C12_ValidForExpiresIn ==
    \A i \in issued :
        LET elapsed == now - i.at
            result == Middleware(Bearer(i.out.token), jwtSecret, now)
        IN  /\ elapsed < i.out.expiresIn * TicksPerSecond => result = "next"
            /\ elapsed > i.out.expiresIn * TicksPerSecond => result = "401"

\* C13: the handler behind Middleware is invoked only for a bearer token
\* that is signed with HS256 under the configured secret, is not expired and
\* has typ "access"; every other request gets 401.
C13_OnlyAccessTokens ==
    LET tok == authz.header.token
    IN  /\ authz.result \in {"", "401", "next"}
        /\ authz.result = "next" =>
              /\ tok.kind = "jwt"
              /\ tok.alg = "HS256"
              /\ tok.sig = HmacSign("HS256", tok.claims, jwtSecret)
              /\ tok.claims.exp.present => authz.at < NumericDate(tok.claims.exp.val)
              /\ tok.claims.typ = StringClaim("access")

\* an issued token reached the handler, and after it a request was refused
C13_Witness ==
    /\ authz.result = "next"
    /\ \E i \in issued : i.out.token = authz.header.token
    /\ authz.at > 0

(***************************************************************************)
(* Further claims about the refresh token ledger (SpecLedger)              *)
(***************************************************************************)
\* C14: a successful Refresh at time t stores a successor that expires at
\* t + refreshTTL, however much lifetime the presented token had left, and
\* the presented token is rejected by every rotation attempted afterwards.
C14_SuccessorGetsFullTTL ==
    /\ \A tok \in Presentable :
          LET out == RefreshOf(tok)
          IN  out.err = "nil" =>
                /\ \E s \in out.tbl \ auth_refresh_tokens :
                      /\ s.token_hash = Sha256Hex(RandomToken(nextSeq))
                      /\ s.expires_at = now + refreshTTL
                      /\ s.revoked_at = NULL
                /\ \A t \in now .. MaxTime :
                      ServiceRefresh(out.tbl, tok, nextSeq + 1, t).err
                          = "ErrInvalidRefreshToken"
    /\ \A r \in auth_refresh_tokens : \A s \in auth_refresh_tokens :
          r.replaced_by # NULL /\ s.id = r.replaced_by
              => s.expires_at = r.revoked_at + refreshTTL
    /\ \A tok \in Presentable : tok.raw \in rotated => Rejected(RefreshOf(tok))

\* a token rotated when part of its lifetime had passed: its successor
\* outlives it by that part, and the token is rejected now
C14_Witness ==
    \E r \in auth_refresh_tokens : \E s \in auth_refresh_tokens :
        /\ r.replaced_by = s.id
        /\ r.revoked_at > r.created_at
        /\ s.expires_at = r.revoked_at + refreshTTL
        /\ s.expires_at > r.expires_at
        /\ \E tok \in Presentable :
              /\ r \in RowsOf(tok) /\ tok.raw \in rotated
              /\ Rejected(RefreshOf(tok))

\* C15: RevokeRefreshToken is idempotent: on a token already revoked, by a
\* logout or by rotation, it leaves revoked_at at the earlier value, and no
\* call turns a non-null revoked_at into NULL or into another time.
C15_RevokeIsIdempotent ==
    \A tok \in Presentable : \A t \in now .. MaxTime :
        LET once == RevokeRefreshToken(auth_refresh_tokens, TrimToken(tok), now)
            twice == RevokeRefreshToken(once, TrimToken(tok), t)
        IN  /\ twice = once
            /\ \A r \in auth_refresh_tokens : r.revoked_at # NULL => r \in once
            /\ \A r \in once : r.token_hash = Sha256Hex(TrimToken(tok))
                                  => r.revoked_at # NULL /\ r.revoked_at <= now

\* a token that was rotated and then logged out: its row still carries the
\* time of the rotation, and a revocation now would leave the row as it is
C15_Witness ==
    \E tok \in Presentable : \E r \in RowsOf(tok) :
        /\ tok.raw \in rotated /\ tok.raw \in revoked
        /\ r.replaced_by # NULL
        /\ r.revoked_at < now
        /\ r \in RevokeRefreshToken(auth_refresh_tokens, TrimToken(tok), now)

(***************************************************************************)
(* Further claims about the lockout (Spec)                                 *)
(***************************************************************************)
\* the attempts table after k more logins of u with the password q
RECURSIVE AfterLogins(_, _, _, _)
AfterLogins(tbl, u, q, k) ==
    IF k = 0 THEN tbl
    ELSE ServiceLogin(users, AfterLogins(tbl, u, q, k - 1), u, q, now).attempts

\* C16: a Login that returns tokens leaves no auth_login_attempts row for its
\* username: GetLoginAttempt reports zero failures and no lock, and only the
\* maxAttempts-th failed login after it locks the username.
C16_SuccessForgetsFailures ==
    \A u \in Usernames : \A p \in Passwords :
        LET out == LoginOf(u, p)
        IN  out.result = "tokens" =>
              /\ \A a \in out.attempts : a.username # u
              /\ GetLoginAttempt(out.attempts, u).FailedAttempts = 0
              /\ GetLoginAttempt(out.attempts, u).LockedUntil = NULL
              /\ \A q \in Passwords : \A k \in 1 .. maxAttempts :
                    ~CredentialsCorrect(u, q) =>
                        ServiceLogin(users, AfterLogins(out.attempts, u, q, k - 1),
                                     u, q, now).result
                          = IF k < maxAttempts THEN "ErrInvalidCredentials"
                            ELSE "ErrLoginLocked"

\* the username is one failure away from a lock and the correct password is
\* presented; and a login has returned tokens before
C16_Witness ==
    \E u \in Usernames : \E p \in Passwords :
        /\ LoginOf(u, p).result = "tokens"
        /\ \E a \in auth_login_attempts :
              a.username = u /\ a.failed_attempts = maxAttempts - 1
        /\ auth_refresh_tokens # {}

(***************************************************************************)
(* Claims about the rate limit in front of the login (SpecGate)            *)
(***************************************************************************)
\* C17: a login request the IP rate limit denies is answered 429 without
\* reaching the login handler: users, auth_login_attempts and
\* auth_refresh_tokens are as before, whatever username and password it
\* carried; whether a request is denied depends on the hits of its IP only.
C17_DeniedLoginTouchesNothing ==
    /\ ~gate.allowed /\ gate.status > 0 =>
          /\ gate.status = 429
          /\ ~gate.served
          /\ ~gate.touched
    /\ \A ip \in IPs :
          LET g == LimiterMiddleware(hitByIP, ip, now)
              alone == LimiterMiddleware(PutHits(<<>>, ip, HitsOf(hitByIP, ip)), ip, now)
          IN  /\ g.allowed = alone.allowed
              /\ g.retryAfter = alone.retryAfter
              /\ ~g.allowed => ~g.next /\ g.status = 429

\* a request was denied and left the three tables alone, while the other IP
\* has hits of its own and is still served
C17_Witness ==
    /\ ~gate.allowed /\ gate.status = 429 /\ ~gate.touched
    /\ \E ip \in IPs : /\ ip # gate.ip
                       /\ LimiterMiddleware(hitByIP, ip, now).allowed
                       /\ ip \in DOMAIN hitByIP

(***************************************************************************)
(* Claims about the bootstrap (Spec)                                       *)
(***************************************************************************)
\* a string that is empty once the white space around it is removed
Blank(str) == str \in {"", " "}

\* C18: BootstrapFromEnv with username and password both empty after
\* trimming returns nil and writes nothing; with exactly one of them empty it
\* returns an error and writes nothing; with both non-empty it upserts the
\* sole user.
C18_BothOrNeither ==
    \A e \in Environments :
        \A o \in BootstrapFromEnv(users, e[1], e[2], 100 + nextSeq, now) :
            IF Blank(e[1]) /\ Blank(e[2])
            THEN o.err = "nil" /\ o.tbl = users
            ELSE IF Blank(e[1]) \/ Blank(e[2])
            THEN o.err # "nil" /\ o.tbl = users
            ELSE /\ o.err = "nil"
                 /\ Cardinality(o.tbl) = 1
                 /\ \A u \in o.tbl :
                       /\ u.username \in Usernames
                       /\ \E pw \in Passwords :
                             CompareHashAndPassword(u.password_hash, pw)
                       /\ u.updated_at = now

\* the admin was bootstrapped, and later a restart finds only one of the two
\* variables set
C18_Witness ==
    /\ lastUpsert.calls > 0 /\ users # {}
    /\ \E u \in users : u.updated_at < now
    /\ \E e \in Environments :
          /\ Blank(e[1]) /\ ~Blank(e[2])
          /\ \A o \in BootstrapFromEnv(users, e[1], e[2], 100 + nextSeq, now) :
                o.err = "config" /\ o.tbl = users

\* C19: RotateRefreshToken accepts a presented token iff its record exists
\* with revoked_at NULL and expires_at strictly greater than the rotation
\* time; in particular a rotation at exactly now = expires_at is rejected.
C19_AcceptsIffStrictlyUnexpired ==
    \A tok \in Presentable :
        LET old == TrimToken(tok)
            out == RotateRefreshToken(auth_refresh_tokens, old,
                                      RandomToken(nextSeq), nextSeq,
                                      now + refreshTTL, now)
        IN  out.err = "nil" <=>
                \E r \in auth_refresh_tokens :
                    /\ r.token_hash = Sha256Hex(old)
                    /\ r.revoked_at = NULL
                    /\ r.expires_at > now

(***************************************************************************)
(* Claims about concurrent failed logins (SpecAttempts)                    *)
(***************************************************************************)
Quiescent == \A p \in Procs : rfa[p].pc \notin Registering

\* C20: concurrent RegisterFailedAttempt calls on the same username, also
\* when no row exists yet, leave the row that the same calls leave when run
\* one after the other: no increment is lost and the lock is imposed as soon
\* as a call reaches maxAttempts.
C20_ConcurrentFailuresSerialise ==
    Quiescent => auth_login_attempts = serial.tbl

\* while every call that found no row was alone on its username, the calls
\* serialise on the row lock
RowLockSerialises ==
    Quiescent /\ ~serial.raced => auth_login_attempts = serial.tbl

(***************************************************************************)
(* Claims about the rotation transaction (SpecRotate)                      *)
(***************************************************************************)
\* C21: in every ledger a reader can see, the successor a rotation inserts
\* is stored iff the presented record has revoked_at set and replaced_by
\* equal to the successor's id: never the successor without the revocation,
\* never the revocation or the pointer without the successor.
C21_RotationAllOrNothing ==
    /\ \A a \in asked :
          (\E s \in auth_refresh_tokens : s.id = a[1])
              <=> \E r \in auth_refresh_tokens :
                     /\ r.token_hash = Sha256Hex(RandomToken(a[2]))
                     /\ r.revoked_at # NULL
                     /\ r.replaced_by = a[1]
    /\ \A r \in auth_refresh_tokens :
          /\ r.revoked_at # NULL <=> r.replaced_by # NULL
          /\ r.replaced_by # NULL =>
                /\ \E s \in auth_refresh_tokens : s.id = r.replaced_by
                /\ <<r.replaced_by, r.token_hash[2]>> \in asked

\* one rotation has committed, and another one stands between its INSERT
\* and its UPDATE with neither of them visible
C21_Witness ==
    /\ \E r \in auth_refresh_tokens : r.replaced_by # NULL
    /\ \E p \in Procs :
          /\ rot[p].pc = "inserted"
          /\ \A s \in auth_refresh_tokens : s.id # rot[p].newID
          /\ \E r \in rot[p].rows :
                r \in auth_refresh_tokens /\ r.revoked_at = NULL

(***************************************************************************)
(* Claims about the rotation chains (SpecLedger)                           *)
(***************************************************************************)
Successors(r) == {s \in auth_refresh_tokens : s.id = r.replaced_by}
Predecessors(s) == {r \in auth_refresh_tokens : r.replaced_by = s.id}

\* the records reached from the records of rs by following replaced_by up
\* to n times
RECURSIVE Following(_, _)
Following(rs, n) ==
    LET next == rs \cup UNION {Successors(r) : r \in rs}
    IN  IF n = 0 \/ next = rs THEN rs ELSE Following(next, n - 1)

After(r) == Following(Successors(r), Cardinality(auth_refresh_tokens))
ChainOf(r) == {s \in auth_refresh_tokens : s = r \/ s \in After(r) \/ r \in After(s)}
Heads == {r \in auth_refresh_tokens : Predecessors(r) = {}}

\* C22: after any logins, rotations and revocations the replaced_by pointers
\* form disjoint chains without cycles, one per login: a record has at most
\* one successor and at most one predecessor, a record with replaced_by set
\* has revoked_at set, and a chain holds at most one unrevoked record, its
\* last.
C22_RotationChains ==
    /\ \A r \in auth_refresh_tokens :
          /\ Cardinality(Successors(r)) <= 1
          /\ Cardinality(Predecessors(r)) <= 1
          /\ r \notin After(r)
          /\ r.replaced_by # NULL => r.revoked_at # NULL
          /\ r.revoked_at = NULL =>
                /\ Successors(r) = {}
                /\ \A s \in ChainOf(r) : s.revoked_at = NULL => s = r
    \* the chains partition the ledger: a record's chain is the chain of
    \* each of its members
    /\ \A r \in auth_refresh_tokens :
          LET chain == ChainOf(r)
          IN  r \in chain /\ \A s \in chain : ChainOf(s) = chain
    \* while cleanup has deleted nothing: one chain for each login
    /\ Cardinality(auth_refresh_tokens) = nextSeq - 1 =>
          Cardinality(Heads) = nextSeq - 1 - Cardinality(rotated)

\* two logins; the token of one was rotated and its chain ends in an
\* unrevoked record, the token of the other was revoked by a logout
C22_Witness ==
    /\ Cardinality(auth_refresh_tokens) = nextSeq - 1
    /\ Cardinality(Heads) = 2
    /\ \E r \in Heads : \E s \in Successors(r) : s.revoked_at = NULL
    /\ \E r \in Heads : r.revoked_at # NULL /\ r.replaced_by = NULL

(***************************************************************************)
(* Claims about the rows of auth_login_attempts (Spec)                     *)
(***************************************************************************)
\* C23: in every reachable auth_login_attempts, 0 <= failed_attempts <
\* maxAttempts, a row with a lock deadline has failed_attempts = 0, and every
\* lock imposed has locked_until = the time of the locking attempt +
\* lockDuration, the first lock of a username and every later one alike.
C23_AttemptRowShape ==
    /\ \A a \in auth_login_attempts :
          /\ a.failed_attempts \in 0 .. maxAttempts - 1
          /\ a.locked_until # NULL =>
                /\ a.failed_attempts = 0
                /\ a.locked_until = a.updated_at + lockDuration
                /\ a.locked_until = deadline[a.username]
    /\ \A u \in Usernames :
          LET cur == GetLoginAttempt(auth_login_attempts, u)
              out == RegisterFailedAttempt(auth_login_attempts, u, maxAttempts,
                                           lockDuration, now)
          IN  ~LockActive(cur.LockedUntil, now) =>
                /\ out.until \in {NULL, now + lockDuration}
                /\ out.until # NULL <=> cur.FailedAttempts + 1 >= maxAttempts

\* a lock imposed when a full lock window had already passed since the
\* start, as the second lock of a username is
C23_Witness ==
    \E a \in auth_login_attempts :
        /\ a.locked_until # NULL /\ a.failed_attempts = 0
        /\ a.updated_at >= lockDuration
        /\ a.locked_until = a.updated_at + lockDuration

\* C24: RegisterFailedAttempt called while the username is locked, now <
\* locked_until, returns the stored deadline and leaves the row as it is:
\* failed_attempts is not incremented and locked_until is not extended.
C24_LockedFailureChangesNothing ==
    \A u \in Usernames : \A t \in now .. MaxTime :
        \A a \in auth_login_attempts :
            a.username = u /\ a.locked_until # NULL /\ t < a.locked_until =>
                LET out == RegisterFailedAttempt(auth_login_attempts, u,
                                                 maxAttempts, lockDuration, t)
                IN  /\ out.until = a.locked_until
                    /\ out.tbl = auth_login_attempts
                    /\ a \in out.tbl

\* a call found the lock active and returned; the row is as the locking
\* call wrote it, after time has passed
C24_Witness ==
    \E p \in Procs : \E a \in auth_login_attempts :
        /\ rfa[p].pc = "done"
        /\ a.username = rfa[p].username
        /\ rfa[p].lockedUntil = a.locked_until
        /\ LockActive(rfa[p].lockedUntil, rfa[p].now)
        /\ rfa[p].now > a.updated_at
        /\ a.failed_attempts = 0

\* C25: a Login for a username whose lock is active returns ErrLoginLocked
\* with the stored deadline without looking up the user, comparing the
\* password or registering a failure; users, auth_login_attempts and
\* auth_refresh_tokens stay as they are, so logins during a lock neither
\* count toward the next lock nor extend this one.
C25_LockedLoginTouchesNothing ==
    \A u \in Usernames : \A p \in Passwords : \A a \in auth_login_attempts :
        a.username = u /\ a.locked_until # NULL /\ now < a.locked_until =>
            \A tbl \in {users, UsersWithout(u), UsersWith(u, p)} :
                LET out == ServiceLogin(tbl, auth_login_attempts, u, p, now)
                IN  /\ out.result = "ErrLoginLocked"
                    /\ out.until = a.locked_until
                    /\ out.attempts = auth_login_attempts
                    /\ out.userID = NULL
                    /\ out.branch = "locked"
                    /\ LoginResponse(out.result, out.until, now).status = 429

\* the owner's username is locked and the correct password is presented
\* after part of the lock has passed
C25_Witness ==
    \E u \in Usernames : \E p \in Passwords : \E a \in auth_login_attempts :
        /\ a.username = u /\ a.locked_until # NULL
        /\ a.updated_at < now /\ now < a.locked_until
        /\ CredentialsCorrect(u, p)
        /\ LoginOf(u, p).result = "ErrLoginLocked"
        /\ LoginOf(u, p).attempts = auth_login_attempts

(***************************************************************************)
(* Claims about the answers of the login rate limit (SpecIPConc, SpecGate) *)
(***************************************************************************)
\* C26: AllowLoginIP allows a request iff the hit count after counting it is
\* <= maxHits; on every denial it returns retryAfter = max(1, window_started_at
\* + window - now), which is positive and never larger than window.
C26_RetryAfterWithinWindow ==
    \A p \in Procs :
        inst[p].pc = "called" =>
            LET out == AllowLoginIP(auth_login_ip_limits, inst[p].snapshot,
                                    inst[p].ip, maxHits, window, inst[p].now)
            IN  /\ out.allowed <=> out.row.hits <= maxHits
                /\ ~out.allowed =>
                      /\ out.retryAfter =
                            Max(1, out.row.window_started_at + window - inst[p].now)
                      /\ out.retryAfter > 0
                      /\ out.retryAfter <= window

\* the same answers when every call runs at the time it was given
RetryAfterWithinWindowInOrder ==
    \A ip \in IPs :
        LET out == AllowOf(ip)
        IN  /\ out.allowed <=> out.row.hits <= maxHits
            /\ ~out.allowed =>
                  /\ out.retryAfter = Max(1, out.row.window_started_at + window - now)
                  /\ out.retryAfter > 0
                  /\ out.retryAfter <= window

(***************************************************************************)
(* Claims about the owner of a rotated token (SpecLedger)                  *)
(***************************************************************************)
OwnerIDs == {100, 101}

\* the ledger with the record of tok owned by user v
OwnedBy(tok, v) ==
    {IF r \in RowsOf(tok) THEN [r EXCEPT !.user_id = v] ELSE r :
        r \in auth_refresh_tokens}

\* C27: a successful rotation returns the user_id stored on the presented
\* token's record and inserts the successor with that user_id, so the access
\* token Refresh mints has as subject the user who logged in, along the
\* whole chain.
C27_SuccessorKeepsOwner ==
    /\ \A tok \in Presentable : \A v \in OwnerIDs :
          LET out == ServiceRefresh(OwnedBy(tok, v), tok, nextSeq, now)
          IN  out.err = "nil" =>
                /\ out.userID = v
                /\ \A s \in out.tbl \ OwnedBy(tok, v) :
                      s.id = nextSeq => s.user_id = v
                /\ \E s \in out.tbl : s.id = nextSeq /\ s.user_id = v
                /\ issueAccessToken(out.userID, now).token.claims.sub = v
    /\ \A r \in auth_refresh_tokens : \A s \in Successors(r) :
          s.user_id = r.user_id

\* a token that is itself a successor can be rotated, while the first record
\* of the ledger belongs to another chain
C27_Witness ==
    \E tok \in Presentable : \E r \in RowsOf(tok) :
        /\ Predecessors(r) # {}
        /\ \E x \in auth_refresh_tokens : x.id < r.id /\ x \notin Predecessors(r)
        /\ ServiceRefresh(OwnedBy(tok, 101), tok, nextSeq, now).err = "nil"
        /\ ServiceRefresh(OwnedBy(tok, 101), tok, nextSeq, now).userID = 101

(***************************************************************************)
(* Claims about the error returns of the transactions (SpecTx)             *)
(***************************************************************************)
\* C28: when RegisterFailedAttempt, RotateRefreshToken or UpsertSingleUser
\* returns an error, a cancellation or timeout at any step before the commit
\* included, the stored tables are as they were before the call: none of
\* the writes the call had made survives.
C28_ErrorLeavesTablesAsBefore ==
    /\ tx.pc = "done" /\ tx.err # "nil" => tx.intact
    /\ tx.pc \in Running => Stored = tx.before

\* a call was cancelled after it had written in its transaction
C28_Witness ==
    /\ tx.pc = "done" /\ tx.err = "context canceled"
    /\ tx.wrote /\ tx.intact
    /\ tx.op = "upsert"

(***************************************************************************)
(* Claims about the cleanup of refresh tokens (SpecLedger)                 *)
(***************************************************************************)
\* the retention a cleanup run applies to refresh tokens
RefreshRetentionOf(k) == IF k[1] <= 0 THEN DefaultRefreshRetention ELSE k[1]

\* C29: cleanup deletes a refresh-token row only after the refresh retention
\* window has passed since the row expired or was revoked; a row that
\* expired or was revoked more recently survives every cleanup pass.
C29_DeletedOnlyAfterRetention ==
    \A k \in CleanupRuns :
        \A dt \in CleanupStaleAuthData(k[1], k[2], k[3], now).tokens :
            \A r \in dt \cap auth_refresh_tokens :
                \/ now > r.expires_at + RefreshRetentionOf(k)
                \/ r.revoked_at # NULL /\ now > r.revoked_at + RefreshRetentionOf(k)

(***************************************************************************)
(* Claims about the in-memory limiter under concurrency (SpecLimiter)      *)
(***************************************************************************)
\* the calls from ip that were allowed and had read a time in (t - window, t]
AllowedWithin(ip, t) ==
    LET Sum[s \in -1 .. MaxTime] ==
            IF s < 0 THEN 0
            ELSE (IF s > t - window /\ s <= t THEN ipAllowed[ip][s] ELSE 0)
                 + Sum[s - 1]
    IN  Sum[MaxTime]

\* every entry a check leaves in the list of its IP is within the window
PrunedOnCheck ==
    \A ip \in IPs, t \in 0 .. MaxTime :
        LET left == HitsOf(allow(hitByIP, ip, maxHits, window, t).hits, ip)
        IN  \A i \in 1 .. Len(left) : left[i] > t - window

\* C30: under any interleaving of concurrent Middleware/allow calls, for
\* every IP and every interval of length window at most maxHits calls from
\* that IP are allowed, and every check prunes the entries of its IP that
\* are older than the window.
C30_AtMostMaxHitsPerWindow ==
    /\ \A ip \in IPs, t \in 0 .. MaxTime : AllowedWithin(ip, t) <= maxHits
    /\ PrunedOnCheck

\* as long as every call took the mutex at the time it had read, the bound
\* per window holds
AtMostMaxHitsPerWindowInOrder ==
    (\A p \in Procs : ~inst[p].overlap)
        => \A ip \in IPs, t \in 0 .. MaxTime : AllowedWithin(ip, t) <= maxHits

(***************************************************************************)
(* Claims about concurrent logins (SpecLogins)                             *)
(***************************************************************************)
\* C31: under any interleaving of concurrent Logins for one username, once
\* a lock has been committed for it no Login for that username returns
\* tokens before locked_until, and the lock row is neither deleted nor
\* altered before locked_until; a correct-password Login that read the
\* attempt state before the lock and then calls ResetLoginAttempt included.
C31_CommittedLockHolds ==
    /\ logins.early = {}
    /\ \A l \in logins.locks : now < l.locked_until => l \in auth_login_attempts

(***************************************************************************)
(* Claims about rejected rotations and revocations (SpecLedger)            *)
(***************************************************************************)
\* C32: a rotation rejected with ErrInvalidRefreshToken (unknown, revoked or
\* expired token) leaves auth_refresh_tokens unchanged: no row is inserted,
\* and the replay of a rotated token revokes neither its successor nor any
\* other record, so every token that was accepted before the rejected call
\* is accepted after it.
C32_RejectedRotationChangesNothing ==
    \A tok \in Presentable :
        LET out == RefreshOf(tok)
        IN  out.err # "nil" =>
              /\ out.err = "ErrInvalidRefreshToken"
              /\ out.tbl = auth_refresh_tokens
              /\ \A later \in Presentable :
                    RefreshOf(later).err = "nil" =>
                        ServiceRefresh(out.tbl, later, nextSeq, now).err = "nil"

\* a rotated token is replayed and rejected while its successor, the tail of
\* the chain, is still accepted
C32_Witness ==
    \E tok \in Presentable, later \in Presentable :
        /\ tok.raw \in rotated
        /\ \E r \in RowsOf(tok) : \E s \in RowsOf(later) : r.replaced_by = s.id
        /\ RefreshOf(tok).err = "ErrInvalidRefreshToken"
        /\ RefreshOf(later).err = "nil"
        /\ ServiceRefresh(RefreshOf(tok).tbl, later, nextSeq, now).err = "nil"

\* C33: RevokeRefreshToken changes only revoked_at of the single record
\* whose hash matches the presented token: replaced_by, expires_at and
\* user_id of that record and every other record stay as they are, revoking
\* a rotated-out token leaves its successor usable, and revoking a token
\* that is not in the ledger changes nothing and returns no error.
C33_RevokeTouchesOneRecord ==
    \A tok \in Presentable :
        LET raw == TrimToken(tok)
            after == RevokeRefreshToken(auth_refresh_tokens, raw, now)
        IN  raw.raw # EmptyToken =>
              /\ Cardinality(RowsOf(tok)) <= 1
              /\ Cardinality(after) = Cardinality(auth_refresh_tokens)
              /\ \A r \in auth_refresh_tokens :
                    IF r \in RowsOf(tok)
                    THEN \E x \in after :
                            /\ x = [r EXCEPT !.revoked_at = x.revoked_at]
                            /\ x.revoked_at # NULL
                    ELSE r \in after
              /\ \A later \in Presentable :
                    TrimToken(later) # raw /\ RefreshOf(later).err = "nil" =>
                        ServiceRefresh(after, later, nextSeq, now).err = "nil"
              /\ ServiceLogout(auth_refresh_tokens, tok, now).err = "nil"
              /\ RowsOf(tok) = {} => after = auth_refresh_tokens

\* a rotated-out token is revoked while its successor is accepted, before
\* and after; a token that never was issued can be presented too
C33_Witness ==
    /\ \E tok \in Presentable, later \in Presentable :
          /\ \E r \in RowsOf(tok) : \E x \in RowsOf(later) : r.replaced_by = x.id
          /\ RefreshOf(later).err = "nil"
          /\ ServiceRefresh(RevokeRefreshToken(auth_refresh_tokens,
                                               TrimToken(tok), now),
                            later, nextSeq, now).err = "nil"
    /\ \E tok \in Presentable :
          /\ RowsOf(tok) # {}
          /\ RevokeRefreshToken(auth_refresh_tokens, TrimToken(tok), now)
                # auth_refresh_tokens
    /\ \E tok \in Presentable : tok.raw # EmptyToken /\ RowsOf(tok) = {}

(***************************************************************************)
(* Claims about the bootstrap of a populated users table (SpecTx)          *)
(***************************************************************************)
\* C34: when a user row exists, UpsertSingleUser keeps the id of the
\* earliest-created row and overwrites only its username and password hash
\* (with the updated_at stamp); the refresh tokens of that id are untouched,
\* so every token of that user that rotation accepted before the bootstrap
\* is accepted after it, and when the table held that one row the whole
\* ledger is as before.
C34_UpsertKeepsIdAndTokens ==
    tx.op = "upsert" /\ tx.pc = "ready" /\ tx.before.users # {} =>
        LET before == tx.before
            after == Commit(Stored, tx.work)
        IN  \E e \in EarliestUsers(before.users) :
              /\ after.users =
                    {[e EXCEPT !.username = tx.username,
                               !.password_hash = GenerateFromPassword(tx.password),
                               !.updated_at = tx.now]}
              /\ {r \in after.tokens : r.user_id = e.id}
                    = {r \in before.tokens : r.user_id = e.id}
              /\ \A tok \in Presentable :
                    (/\ \E r \in RowsByHash(before.tokens, TrimToken(tok)) :
                            r.user_id = e.id
                     /\ ServiceRefresh(before.tokens, tok, nextSeq, now).err = "nil")
                        => ServiceRefresh(after.tokens, tok, nextSeq, now).err = "nil"
              /\ Cardinality(before.users) = 1 => after.tokens = before.tokens

\* a bootstrap with a new username and password is about to commit on a
\* table that held a user whose refresh token rotation accepts
C34_Witness ==
    /\ tx.op = "upsert" /\ tx.pc = "ready"
    /\ \E e \in tx.before.users :
          /\ e.username # tx.username
          /\ e.password_hash # GenerateFromPassword(tx.password)
          /\ \E u \in tx.work.users : u.id = e.id /\ u.username = tx.username
          /\ \E tok \in Presentable :
                /\ \E r \in RowsByHash(tx.before.tokens, TrimToken(tok)) :
                        r.user_id = e.id
                /\ ServiceRefresh(tx.before.tokens, tok, nextSeq, now).err = "nil"
                /\ ServiceRefresh(tx.work.tokens, tok, nextSeq, now).err = "nil"

(***************************************************************************)
(* Claims about concurrent bootstraps (SpecBoot)                           *)
(***************************************************************************)
\* C35: when two UpsertSingleUser calls run concurrently, in any
\* interleaving and on an empty or a populated users table, then after
\* both have returned (one of them at least without error) the users table
\* holds exactly one row.
C35_ConcurrentUpsertsLeaveOneRow ==
    (/\ \A p \in Procs : boot[p].pc = "done"
     /\ \E p \in Procs : boot[p].overlap
     /\ \E p \in Procs : boot[p].err = "nil")
        => Cardinality(users) = 1

\* two concurrent calls with the same username, on a table that held at
\* most one row, leave one row
SameUsernameLeavesOneRow ==
    (/\ \A p \in Procs : boot[p].pc = "done"
     /\ \E p \in Procs : boot[p].err = "nil"
     /\ lastUpsert.start <= 1
     /\ \A p \in Procs, q \in Procs : boot[p].username = boot[q].username)
        => Cardinality(users) = 1

\* two calls that did not overlap leave one row
UpsertsInTurnLeaveOneRow ==
    (/\ \A p \in Procs : boot[p].pc = "done"
     /\ \A p \in Procs : ~boot[p].overlap
     /\ \E p \in Procs : boot[p].err = "nil")
        => Cardinality(users) = 1

(***************************************************************************)
(* Claims about what cleanup may delete (Spec, SpecLedger)                 *)
(***************************************************************************)
\* C36: for any retention values and batch size, CleanupStaleAuthData
\* deletes no refresh token that is unrevoked and unexpired and no
\* auth_login_attempts row whose lock is still active: the tokens rotation
\* accepts before a pass are accepted after it, and a username that is
\* locked before a pass is locked after it, until the same deadline.
C36_CleanupRemovesOnlyDeadRecords ==
    \A k \in 0 .. MaxTime, bs \in 0 .. 2 :
        LET del == CleanupStaleAuthData(k, k, bs, now)
        IN  /\ \A dt \in del.tokens :
                  /\ \A r \in dt : r.revoked_at # NULL \/ r.expires_at < now
                  /\ \A tok \in Presentable :
                        RefreshOf(tok).err = "nil" =>
                            ServiceRefresh(auth_refresh_tokens \ dt, tok,
                                           nextSeq, now).err = "nil"
            /\ \A da \in del.attempts :
                  /\ \A a \in da : ~LockActive(a.locked_until, now)
                  /\ \A u \in Usernames :
                        LET before == GetLoginAttempt(auth_login_attempts, u)
                            after == GetLoginAttempt(auth_login_attempts \ da, u)
                        IN  LoginLocked(before, now) =>
                              /\ LoginLocked(after, now)
                              /\ after.LockedUntil = before.LockedUntil

\* a cleanup pass deletes the stale attempts row of one username while the
\* lock of another username is active and a refresh token is live
C36_Witness ==
    /\ \E tok \in Presentable : RefreshOf(tok).err = "nil"
    /\ \E a \in auth_login_attempts : LockActive(a.locked_until, now)
    /\ \E da \in CleanupStaleAuthData(1, 1, 1, now).attempts : da # {}

\* C37: in every reachable ledger state, after any number of cleanup passes
\* with any batch size, every non-null replaced_by refers to a record that
\* is still in auth_refresh_tokens: cleanup never deletes a successor while
\* its predecessor remains.
C37_SuccessorOutlivesPredecessor ==
    /\ \A r \in auth_refresh_tokens :
          r.replaced_by # NULL => Successors(r) # {}
    /\ \A k \in 0 .. MaxTime, bs \in 0 .. 2 :
          \A dt \in CleanupStaleAuthData(k, k, bs, now).tokens :
              \A r \in auth_refresh_tokens \ dt :
                  r.replaced_by # NULL => Successors(r) \ dt # {}

\* a cleanup pass with batch size 1 can delete a rotated record and leaves
\* its successor, which is stale as well, for a later pass
C37_Witness ==
    \E dt \in CleanupStaleAuthData(1, 1, 1, now).tokens :
        \E r \in dt : \E x \in Successors(r) :
            /\ x \notin dt
            /\ x \in StaleRefreshTokens(auth_refresh_tokens, now - 1, now)

(***************************************************************************)
(* Claims about the end of a denial (SpecLimits)                           *)
(***************************************************************************)
\* the table after j more requests of ip at the present time
RECURSIVE KeepsAsking(_, _, _)
KeepsAsking(tbl, ip, j) ==
    IF j = 0 THEN tbl
    ELSE KeepsAsking(AllowLoginIP(tbl, tbl, ip, maxHits, window, now).tbl,
                     ip, j - 1)

\* the map after j more requests of ip at the present time
RECURSIVE KeepsKnocking(_, _, _)
KeepsKnocking(hits, ip, j) ==
    IF j = 0 THEN hits
    ELSE KeepsKnocking(allow(hits, ip, maxHits, window, now).hits, ip, j - 1)

\* C38: an IP that is being denied is allowed again no later than one
\* window after the start of its current window, however many requests it
\* sends while denied: in the persisted limiter a denied request increases
\* hits and never moves window_started_at, in the in-memory limiter a
\* denied request is not recorded.
C38_DenialEndsWithTheWindow ==
    \A ip \in IPs : \A j \in 1 .. MaxIPCalls :
        /\ ~AllowOf(ip).allowed =>
              LET tbl == KeepsAsking(auth_login_ip_limits, ip, j)
              IN  \A r \in {x \in auth_login_ip_limits : x.ip = ip} :
                    /\ \A x \in tbl : x.ip = ip =>
                          /\ x.window_started_at = r.window_started_at
                          /\ x.hits = r.hits + j
                    /\ \A t \in r.window_started_at + window .. MaxTime + window :
                          AllowLoginIP(tbl, tbl, ip, maxHits, window, t).allowed
        /\ ~allow(hitByIP, ip, maxHits, window, now).allowed =>
              LET filtered == RecentHits(HitsOf(hitByIP, ip), now - window)
                  hits == KeepsKnocking(hitByIP, ip, j)
              IN  /\ HitsOf(hits, ip) = filtered
                  /\ \A t \in filtered[1] + window .. MaxTime + window :
                        allow(hits, ip, maxHits, window, t).allowed

\* an IP that has been denied before is denied by both limiters, in a window
\* that did not start now
C38_Witness ==
    \E ip \in IPs :
        /\ ~AllowOf(ip).allowed
        /\ \E r \in auth_login_ip_limits :
              r.ip = ip /\ r.hits > maxHits /\ r.window_started_at < now
        /\ ~allow(hitByIP, ip, maxHits, window, now).allowed
        /\ HitsOf(hitByIP, ip)[1] < now

(***************************************************************************)
(* Claims about the bootstrapped credentials (SpecEnv)                     *)
(***************************************************************************)
\* C39: a login with the username and password that BootstrapFromEnv
\* accepted and stored, neither rate limited nor locked, returns tokens: the
\* format checks of the handler and the trimming and lower-casing of Login
\* never reject or alter credentials that the bootstrap accepted.
C39_BootstrappedCredentialsLogIn ==
    env.stored /\ env.login # "none" => env.login \in {"tokens", "ErrLoginLocked"}

\* the credentials that pass the handler's format checks do log in: the
\* trimming and the lower-casing of the two sides agree
WellFormedCredentialsLogIn ==
    env.stored /\ env.login \notin {"none", "400"}
        => env.login \in {"tokens", "ErrLoginLocked"}

\* the stored credentials logged in although the environment held them with
\* white space and capitals
TrimmedCredentialsLoggedIn ==
    /\ env.stored /\ env.login = "tokens"
    /\ env.username # TrimSpace(ToLower(env.username))
    /\ env.password # TrimSpace(env.password)

(***************************************************************************)
(* Claims about the eviction (SpecEvict)                                   *)
(***************************************************************************)
\* C40: eviction in the in-memory limiter is transparent: for every
\* sequence of allow calls, allowed and retryAfter of each call are those
\* of a limiter that never evicts.
C40_EvictionIsTransparent == mirror.same

\* as long as every call took the mutex at the time it had read, the two
\* limiters answer alike
EvictionIsTransparentInOrder ==
    (\A p \in Procs : ~inst[p].overlap) => mirror.same

\* the eviction removed an IP and left the IP of the call: the two maps
\* differ, the answers so far do not
EvictedInOrder ==
    /\ \A p \in Procs : ~inst[p].overlap
    /\ mirror.same
    /\ DOMAIN hitByIP # DOMAIN mirror.hits
    /\ \E p \in Procs : inst[p].pc = "done" /\ inst[p].ip \in DOMAIN hitByIP

====
